---- MODULE Spec2Model ----
(***************************************************************************)
(* Model of the containerd runtime driver of containerlab                  *)
(* (ContainerdRuntime: CreateContainer, StartContainer, StopContainer,     *)
(* DeleteContainer) together with the containerd engine objects it drives  *)
(* (container record, task, exit channel) and the CNI plugin chain.        *)
(*                                                                         *)
(* Every engine call is one step.  A call records an event in the trace    *)
(* of the running top-level operation: its name, whether it succeeded, its *)
(* argument and, for a call on the task's process, the task's state; a     *)
(* "park" event records that the goroutine blocked in the wait's select.   *)
(*                                                                         *)
(* Spec and LiveSpec are the container operations (create, stop, delete,   *)
(* list) on the engine; ConcSpec runs a StopContainer for each of two      *)
(* containers at once.  UtilSpec applies the operations that are not made  *)
(* on one container to arguments drawn from bounded sets: SetMgmtNet,      *)
(* PullImageIfRequired on an image store, the bind-mount translations of   *)
(* the containerd and podman drivers, podman's createContainerSpec, the    *)
(* extraction of the management addresses, the filter translations of both *)
(* drivers, cniInit and the ext-container UpdateConfigWithRuntimeInfo.     *)
(* CvxSpec is the cvx node: Init, Deploy, the VM spawn that sends its      *)
(* result on SpawnFinished, and PostDeploy called with a context.          *)
(* Strings are TLA+ strings, cut and joined as the Go code cuts and joins  *)
(* them.                                                                   *)
(***************************************************************************)
EXTENDS Integers, Sequences, FiniteSets, TLC

\* ---------------------------------------------------------------- bounds
MaxCalls == 2          \* top-level operations started per container
NumPids == 2           \* process ids the engine may give to a task

Containers == {"c1", "c2"}
Pids == 1..NumPids

\* containerd.ProcessStatus values
TaskStates == {"Created", "Running", "Paused", "Pausing", "Stopped", "Unknown"}
\* types.Node.NetworkMode values
Modes == {"bridge", "host", "none", "container:n1"}
Results == {"nil", "engineErr", "ctxErr"}
\* the states in which the engine holds the task's process frozen
PausedStates == {"Paused", "Pausing"}
\* positions of an operation that are inside StopContainer
StopPCs == {"stop_load", "stop_task", "stop_status", "stop_waitreg", "stop_resume",
            "stop_kill", "stop_select", "stop_parked", "stop_woken", "stop_delete"}

VARIABLES
    \* ---- engine (containerd) state, per container id
    rec,          \* container record exists
    cmode,        \* network mode the record was created with
    task,         \* "none" or the task's ProcessStatus
    pid,          \* pid of the task (0 when none)
    sigs,         \* signals delivered to the task's process
    waitReg,      \* an exit channel is registered (task.Wait)
    exitCh,       \* content of the exit channel: "empty" | "ok" | "err"
    adds,         \* plugin-chain add invocations since the record was created
    dels,         \* plugin-chain del invocations since the record was created
    \* ---- driver
    gracefulShutdown,  \* ContainerdRuntime.gracefulShutdown
    alive,        \* the process has not exited through log.Fatal
    \* ---- running call, per container id
    op,           \* "idle" | "stop" | "delete" | "create"
    pc,           \* position in the running operation
    calls,        \* top-level operations started so far
    cancelled,    \* the caller's ctx is done
    durArg,       \* StopContainer's dur argument: "nil" | "set"
    trace,        \* engine calls made by the running/last operation
    result,       \* return value of the last top-level operation
    stopRes,      \* return value of StopContainer in the running/last operation
    start,        \* task state when the operation started
    faulted,      \* some engine call of the operation returned an engine fault
    taskstatus,   \* StopContainer local: taskstatus.Status
    paused,       \* StopContainer local
    needsStop,    \* StopContainer local
    selected,     \* waitContainerStop: select case taken: "none"|"ctx"|"exit"
    nodeMode,     \* node.NetworkMode of the node being created
    nsPath,       \* node.NSPath
    cnic,         \* CreateContainer local: cnic != nil
    netNS,        \* cnirc.NetNS
    prev,         \* summary of the previous operation, when it was a
                  \* StopContainer or a CreateContainer
    \* ---- labels and listing, per container id
    labels,       \* labels of the container record (engine state)
    attach,       \* CreateContainer local: the result of AddNetworkList
    listed,       \* the entry the running/last ListContainers made for the container
    \* ---- operations that are not made on one container
    Mgmt,         \* ContainerdRuntime.Mgmt
    images,       \* references held by the engine's image store
    scen,         \* which of these operations the behaviour exercises
    fin,          \* argument of the operation
    fout,         \* what it returned
    ppc,          \* position in PullImageIfRequired
    pcalls,       \* PullImageIfRequired calls started
    ptrace,       \* engine calls made by the PullImageIfRequired calls
    \* ---- the cvx node
    vmChans,      \* cvx.vmChans: "nil" | "chans"
    spawn,        \* the VM spawn: "none" | "running" | "finished"
    spawnFinished,\* values offered on vmChans.SpawnFinished and not yet received
    cvxpc,        \* position of the goroutine that deploys the node
    cvxcalls,     \* PostDeploy calls started
    cvxctx        \* the ctx passed to the running PostDeploy is done

engineVars == <<rec, cmode, task, pid, sigs, waitReg, exitCh, adds, dels>>
driverVars == <<gracefulShutdown, alive>>
stopLocals == <<taskstatus, paused, needsStop, selected>>
createLocals == <<nodeMode, nsPath, cnic, netNS>>
callVars == <<op, pc, calls, cancelled, durArg, trace, result, stopRes, start, faulted, prev>>
listVars == <<labels, attach, listed>>
cvxVars == <<vmChans, spawn, spawnFinished, cvxpc, cvxcalls, cvxctx>>
utilVars == <<Mgmt, images, scen, fin, fout, ppc, pcalls, ptrace, cvxVars>>
lifeVars == <<engineVars, driverVars, stopLocals, createLocals, callVars, listVars>>
vars == <<lifeVars, utilVars>>

NoPath == <<>>
\* GetNSPath: "/proc/" + strconv.Itoa(pid) + "/ns/net"
NSPathOf(p) == <<"/proc/", p, "/ns/net">>

\* st: the state of the task when a call that acts on its process (Resume,
\* Kill) reached the engine; NoState for the other calls
NoState == "-"
Ev(call, ok, arg, st) == [call |-> call, ok |-> ok, arg |-> arg, st |-> st]
NoPrev == [op |-> "none", start |-> "none", result |-> "nil", kills |-> 0, faulted |-> FALSE]

\* positions i of the trace whose event is a call of the given name
Idx(tr, name) == {i \in 1..Len(tr) : tr[i].call = name}
Called(tr, name) == Idx(tr, name) # {}


\* variant: the value is written for every container
SetForAll(f, c, v) == [d \in DOMAIN f |-> v]

\* an operation reads and writes what is held for the container it names
Set(f, c, v) == [f EXCEPT ![c] = v]

\* results an engine call can have: it fails whenever its precondition does
\* not hold in the engine, and may fail (transport/engine fault) otherwise
Outcomes(possible) == IF possible THEN {TRUE, FALSE} ELSE {FALSE}

Kills(tr) == Cardinality({i \in Idx(tr, "Kill") : tr[i].ok})

\* ------------------------------------------------ strings
\* the i-th character of a string
Char(s, i) == SubSeq(s, i, i)

Digits == <<"0", "1", "2", "3", "4", "5", "6", "7", "8", "9">>
IsDigit(ch) == \E d \in 1..10 : Digits[d] = ch
DigitVal(ch) == (CHOOSE d \in 1..10 : Digits[d] = ch) - 1

\* strconv.Itoa
RECURSIVE Itoa(_)
Itoa(n) ==
    IF n < 0 THEN "-" \o Itoa(0 - n)
    ELSE IF n < 10 THEN Digits[n + 1]
    ELSE Itoa(n \div 10) \o Digits[(n % 10) + 1]

\* the number written by a string of digits
RECURSIVE NatOf(_)
NatOf(s) ==
    IF s = "" THEN 0
    ELSE 10 * NatOf(SubSeq(s, 1, Len(s) - 1)) + DigitVal(Char(s, Len(s)))

\* strconv.Atoi: an optional sign followed by at least one digit
Atoi(s) ==
    LET signed == Len(s) > 0 /\ Char(s, 1) \in {"+", "-"}
        body == IF signed THEN SubSeq(s, 2, Len(s)) ELSE s
        val == NatOf(body)
    IN IF body = "" \/ \E i \in 1..Len(body) : ~IsDigit(Char(body, i))
       THEN [ok |-> FALSE, val |-> 0]
       ELSE [ok |-> TRUE, val |-> IF signed /\ Char(s, 1) = "-" THEN 0 - val ELSE val]

\* ------------------------------------------------ labels and addresses
\* a label map is a function from its keys to their values
NoLabels == [k \in {} |-> ""]
\* labels[k] of a Go map: the empty string for a missing key
Get(l, k) == IF k \in DOMAIN l THEN l[k] ELSE ""

\* node.Labels, given to the record by WithAdditionalContainerLabels
NodeLabels == [k \in {"containerlab"} |-> "lab"]

\* the addresses a plugin-chain add can report (current.Result.IPs)
IPConfigs == {[Version |-> "4", IP |-> "172.20.20.2", Size |-> 24],
              [Version |-> "6", IP |-> "2001:172:20:20::2", Size |-> 64]}
NoAttach == <<>>
AttachResults ==
    {NoAttach} \cup {<<i>> : i \in IPConfigs}
        \cup {<<i, j>> : i, j \in IPConfigs}

\* the loop over result.IPs: the last entry of a version sets its variables
LastOf(res, version) ==
    LET S == {i \in 1..Len(res) : res[i].Version = version}
    IN IF S = {} THEN [IP |-> "", Size |-> 0]
       ELSE LET m == CHOOSE i \in S : \A j \in S : j <= i
            IN [IP |-> res[m].IP, Size |-> res[m].Size]

\* additionalLabels of CreateContainer
AttachLabels(res) ==
    [k \in {"clab.ipv4.addr", "clab.ipv4.netmask", "clab.ipv6.addr", "clab.ipv6.netmask"} |->
        CASE k = "clab.ipv4.addr" -> LastOf(res, "4").IP
          [] k = "clab.ipv4.netmask" -> Itoa(LastOf(res, "4").Size)
          [] k = "clab.ipv6.addr" -> LastOf(res, "6").IP
          [] k = "clab.ipv6.netmask" -> Itoa(LastOf(res, "6").Size)]

\* container.SetLabels: the engine merges the given labels into the record's
SetLabels(old, new) == new @@ old

\* types.GenericMgmtIPs
MgmtIPs(set, a4, l4, a6, l6, gw4) ==
    [Set |-> set, IPv4addr |-> a4, IPv4pLen |-> l4,
     IPv6addr |-> a6, IPv6pLen |-> l6, IPv4Gw |-> gw4]
ZeroMgmtIPs == MgmtIPs(FALSE, "", 0, "", 0, "")

\* variant: the record is never marked set
IsSetNever(l) == FALSE

\* extractIPInfoFromLabels: isSet
IsSet(l) == "clab.ipv4.netmask" \in DOMAIN l \/ "clab.ipv6.netmask" \in DOMAIN l

\* extractIPInfoFromLabels: err is an Atoi error, and then ips is nil
ExtractIPInfoFromLabels(l) ==
    LET has4 == "clab.ipv4.netmask" \in DOMAIN l
        has6 == "clab.ipv6.netmask" \in DOMAIN l
        m4 == Atoi(Get(l, "clab.ipv4.netmask"))
        m6 == Atoi(Get(l, "clab.ipv6.netmask"))
    IN IF (has4 /\ ~m4.ok) \/ (has6 /\ ~m6.ok)
       THEN [err |-> TRUE, ips |-> ZeroMgmtIPs]
       ELSE [err |-> FALSE,
             ips |-> MgmtIPs(IsSet(l),
                             Get(l, "clab.ipv4.addr"), IF has4 THEN m4.val ELSE 0,
                             Get(l, "clab.ipv6.addr"), IF has6 THEN m6.val ELSE 0,
                             "")]

\* types.GenericContainer, as far as produceGenericContainerList fills it
GenericContainer(present, state, status, pidv, lbls, ips) ==
    [present |-> present, State |-> state, Status |-> status, Pid |-> pidv,
     Labels |-> lbls, NetworkSettings |-> ips]
NoEntry == GenericContainer(FALSE, "", "", 0, NoLabels, ZeroMgmtIPs)

\* types.MgmtNet
MgmtNet(network, bridge, v4, v6, mtu) ==
    [Network |-> network, Bridge |-> bridge, IPv4Subnet |-> v4,
     IPv6Subnet |-> v6, MTU |-> mtu]
ZeroMgmtNet == MgmtNet("", "", "", "", "")

\* the switch on node.NetworkMode: does the container get the plugin chain
UsesCNI(mode) == mode \notin {"host", "none"}

\* the labels of a record left by an earlier, successful CreateContainer
CreatedLabels(mode) ==
    IF UsesCNI(mode)
    THEN SetLabels(NodeLabels, AttachLabels(<<CHOOSE i \in IPConfigs : i.Version = "4">>))
    ELSE NodeLabels

\* ------------------------------------------------------------ Init
\* The containers the operations are called for.  The engine may already
\* hold a record (with or without a task) for a container, left by an
\* earlier run of the driver.
InitEngine(active) ==
    /\ rec \in [Containers -> BOOLEAN]
    /\ cmode \in [Containers -> Modes]
    /\ task \in [Containers -> TaskStates \cup {"none"}]
    /\ pid \in [Containers -> Pids \cup {0}]
    /\ \A c \in Containers :
          /\ (c \notin active) => (~rec[c] /\ cmode[c] = "bridge")
          /\ ~rec[c] => (task[c] = "none" /\ cmode[c] = "bridge")
          /\ (task[c] = "none") <=> (pid[c] = 0)
          /\ (task[c] # "none") => (pid[c] = 1)
    /\ sigs = [c \in Containers |-> {}]
    /\ waitReg = [c \in Containers |-> FALSE]
    /\ exitCh = [c \in Containers |-> "empty"]
    /\ adds = [c \in Containers |-> 0]
    /\ dels = [c \in Containers |-> 0]
    /\ labels = [c \in Containers |-> IF rec[c] THEN CreatedLabels(cmode[c]) ELSE NoLabels]

InitDriver(active) ==
    /\ gracefulShutdown \in BOOLEAN
    /\ alive = TRUE
    /\ op = [c \in Containers |-> "idle"]
    /\ pc = [c \in Containers |-> "idle"]
    /\ calls = [c \in Containers |-> IF c \in active THEN 0 ELSE MaxCalls]
    /\ cancelled = [c \in Containers |-> FALSE]
    /\ durArg = [c \in Containers |-> "nil"]
    /\ trace = [c \in Containers |-> <<>>]
    /\ result = [c \in Containers |-> "nil"]
    /\ stopRes = [c \in Containers |-> "none"]
    /\ start = [c \in Containers |-> "none"]
    /\ faulted = [c \in Containers |-> FALSE]
    /\ taskstatus = [c \in Containers |-> "none"]
    /\ paused = [c \in Containers |-> FALSE]
    /\ needsStop = [c \in Containers |-> FALSE]
    /\ selected = [c \in Containers |-> "none"]
    /\ nodeMode = [c \in Containers |-> "bridge"]
    /\ nsPath = [c \in Containers |-> NoPath]
    /\ cnic = [c \in Containers |-> FALSE]
    /\ netNS = [c \in Containers |-> NoPath]
    /\ prev = [c \in Containers |-> NoPrev]
    /\ attach = [c \in Containers |-> NoAttach]
    /\ listed = [c \in Containers |-> NoEntry]

\* a cvx node after Init: no VM channels are recorded
CvxIdle ==
    /\ vmChans = "nil"
    /\ spawn = "none"
    /\ spawnFinished = <<>>
    /\ cvxpc = "new"
    /\ cvxcalls = 0
    /\ cvxctx = FALSE

\* none of the operations that are not made on one container is exercised
UtilIdle ==
    /\ CvxIdle
    /\ Mgmt = ZeroMgmtNet
    /\ images = {}
    /\ scen = "none"
    /\ fin = <<>>
    /\ fout = <<>>
    /\ ppc = "idle"
    /\ pcalls = 0
    /\ ptrace = <<>>

Init == InitEngine({"c1"}) /\ InitDriver({"c1"}) /\ UtilIdle

\* ------------------------------------------------ starting an operation
Summary(c) == [op |-> op[c], start |-> start[c], result |-> result[c],
               kills |-> Kills(trace[c]), faulted |-> faulted[c]]

\* of a CreateContainer only the return value is kept
CreateSummary(c) == [op |-> "create", start |-> "none", result |-> result[c],
                     kills |-> 0, faulted |-> FALSE]

\* common part of entering a top-level operation on container c
Enter(c, o, first) ==
    /\ alive
    /\ pc[c] \in {"idle", "done"}
    /\ calls[c] < MaxCalls
    /\ calls' = Set(calls, c, calls[c] + 1)
    /\ prev' = Set(prev, c, IF op[c] = "stop" THEN Summary(c)
                            ELSE IF op[c] = "create" THEN CreateSummary(c)
                            ELSE NoPrev)
    /\ op' = Set(op, c, o)
    /\ pc' = Set(pc, c, first)
    /\ cancelled' = Set(cancelled, c, FALSE)
    /\ trace' = Set(trace, c, <<>>)
    /\ result' = Set(result, c, "nil")
    /\ stopRes' = Set(stopRes, c, "none")
    /\ start' = Set(start, c, task[c])
    /\ faulted' = Set(faulted, c, FALSE)
    /\ taskstatus' = Set(taskstatus, c, "none")
    /\ paused' = Set(paused, c, FALSE)
    /\ needsStop' = Set(needsStop, c, FALSE)
    /\ selected' = Set(selected, c, "none")
    /\ waitReg' = Set(waitReg, c, FALSE)
    /\ exitCh' = Set(exitCh, c, "empty")
    /\ listed' = Set(listed, c, NoEntry)
    /\ UNCHANGED <<rec, cmode, task, pid, sigs, adds, dels, labels, driverVars, utilVars>>

\* a caller invokes StopContainer(ctx, c, dur)
CallStop(c) ==
    /\ Enter(c, "stop", "stop_load")
    /\ \E d \in {"nil", "set"} : durArg' = Set(durArg, c, d)
    /\ UNCHANGED <<createLocals, attach>>


\* ------------------------------------------------ step helpers
callFrame == <<op, calls, cancelled, durArg, start, prev, driverVars, utilVars>>
stepFrame == <<callFrame, listVars>>

Log(c, e, fault) ==
    /\ trace' = Set(trace, c, Append(trace[c], e))
    /\ faulted' = Set(faulted, c, faulted[c] \/ fault)

Goto(c, l) ==
    /\ pc' = Set(pc, c, l)
    /\ UNCHANGED <<stopRes, result>>

\* DeleteContainer, after StopContainer returned res
\* variant: DeleteContainer goes on whatever StopContainer returned
DeleteAfterStopAlways(res) == "del_cniInit"

DeleteAfterStop(res) == IF res = "nil" THEN "del_cniInit" ELSE "done"

\* StopContainer returns res, to its caller or to DeleteContainer
StopRet(c, res) ==
    /\ stopRes' = Set(stopRes, c, res)
    /\ result' = Set(result, c, IF op[c] = "stop" \/ res # "nil" THEN res ELSE result[c])
    /\ pc' = Set(pc, c, IF op[c] = "stop" THEN "done" ELSE DeleteAfterStop(res))

\* ------------------------------------------------ StopContainer
\* variant: the error of getContainerTask is returned
StopTaskErrReturned == "engineErr"

\* what StopContainer returns when getContainerTask returned an error
StopTaskErrResult == "nil"

\* variant: only a stopped task skips the stop sequence
NeedsStopUnlessStopped(status) == status # "Stopped"

\* variant: every task goes through the stop sequence
NeedsStopAlways(status) == TRUE

NeedsStop(status) == status \notin {"Created", "Stopped"}

\* variant: a task that is still pausing is not resumed
IsPausedOnly(status) == status = "Paused"

IsPaused(status) == status \in {"Paused", "Pausing"}

AfterStatus(ns) == IF ns THEN "stop_waitreg" ELSE "stop_delete"

AfterWait(p) == IF p THEN "stop_resume" ELSE "stop_kill"

\* the signal StopContainer sends, for a driver setting and a dur argument
\* variant: a graceful driver sends SIGTERM
KillSignalGraceful(graceful, dur) == IF graceful THEN "SIGTERM" ELSE "SIGKILL"

KillSignal(graceful, dur) == "SIGKILL"

\* waitContainerStop: the return value of each select case
\* variant: a cancelled wait is taken for an observed exit
WaitCtxIgnored == "nil"

WaitCtxResult == "ctxErr"

WaitExitResult(status) == IF status = "ok" THEN "nil" ELSE "engineErr"

\* getContainerTask: c.client.LoadContainer
StopLoad(c) ==
    /\ alive
    /\ pc[c] = "stop_load"
    /\ \E ok \in Outcomes(rec[c]) :
          /\ Log(c, Ev("LoadContainer", ok, <<>>, NoState), rec[c] /\ ~ok)
          /\ IF ok THEN Goto(c, "stop_task") ELSE StopRet(c, StopTaskErrResult)
    /\ UNCHANGED <<engineVars, stopLocals, createLocals, stepFrame>>

\* getContainerTask: cont.Task
StopTask(c) ==
    /\ alive
    /\ pc[c] = "stop_task"
    /\ \E ok \in Outcomes(task[c] # "none") :
          /\ Log(c, Ev("Task", ok, <<>>, NoState), task[c] # "none" /\ ~ok)
          /\ IF ok THEN Goto(c, "stop_status") ELSE StopRet(c, StopTaskErrResult)
    /\ UNCHANGED <<engineVars, stopLocals, createLocals, stepFrame>>

\* ctask.Status and the switch on taskstatus.Status
StopStatus(c) ==
    /\ alive
    /\ pc[c] = "stop_status"
    /\ \E ok \in Outcomes(task[c] # "none") :
          /\ Log(c, Ev("Status", ok, <<>>, NoState), task[c] # "none" /\ ~ok)
          /\ IF ok
             THEN /\ taskstatus' = Set(taskstatus, c, task[c])
                  /\ paused' = Set(paused, c, IsPaused(task[c]))
                  /\ needsStop' = Set(needsStop, c, NeedsStop(task[c]))
                  /\ Goto(c, AfterStatus(NeedsStop(task[c])))
             ELSE /\ UNCHANGED <<taskstatus, paused, needsStop>>
                  /\ StopRet(c, "engineErr")
    /\ UNCHANGED <<engineVars, selected, createLocals, stepFrame>>

\* ctask.Wait: register for the exit notification
StopWaitReg(c) ==
    /\ alive
    /\ pc[c] = "stop_waitreg"
    /\ \E ok \in Outcomes(task[c] # "none") :
          /\ Log(c, Ev("Wait", ok, <<>>, NoState), task[c] # "none" /\ ~ok)
          /\ waitReg' = Set(waitReg, c, ok)
          /\ IF ok THEN Goto(c, AfterWait(paused[c])) ELSE StopRet(c, "engineErr")
    /\ UNCHANGED <<rec, cmode, task, pid, sigs, exitCh, adds, dels,
                   stopLocals, createLocals, stepFrame>>

\* ctask.Resume; a failure is logged and the stop goes on
StopResume(c) ==
    /\ alive
    /\ pc[c] = "stop_resume"
    /\ \E ok \in Outcomes(task[c] \in PausedStates) :
          /\ Log(c, Ev("Resume", ok, <<>>, task[c]), task[c] \in PausedStates /\ ~ok)
          /\ task' = Set(task, c, IF ok THEN "Running" ELSE task[c])
          /\ paused' = Set(paused, c, IF ok THEN FALSE ELSE paused[c])
          /\ Goto(c, "stop_kill")
    /\ UNCHANGED <<rec, cmode, pid, sigs, waitReg, exitCh, adds, dels,
                   taskstatus, needsStop, selected, createLocals, stepFrame>>

\* ctask.Kill
StopKill(c) ==
    /\ alive
    /\ pc[c] = "stop_kill"
    /\ LET sig == KillSignal(gracefulShutdown, durArg[c])
           can == task[c] \notin {"none", "Stopped"}
       IN \E ok \in Outcomes(can) :
             /\ Log(c, Ev("Kill", ok, <<sig>>, task[c]), can /\ ~ok)
             /\ sigs' = Set(sigs, c, IF ok THEN sigs[c] \cup {sig} ELSE sigs[c])
             /\ IF ok THEN Goto(c, "stop_select") ELSE StopRet(c, "engineErr")
    /\ UNCHANGED <<rec, cmode, task, pid, waitReg, exitCh, adds, dels,
                   stopLocals, createLocals, stepFrame>>

\* waitContainerStop: the select statement is reached.  With a ready case
\* one of the ready cases is taken; with none the goroutine parks.
StopSelect(c) ==
    /\ alive
    /\ pc[c] = "stop_select"
    /\ LET ready == {s \in {"ctx", "exit"} :
                        \/ s = "ctx" /\ cancelled[c]
                        \/ s = "exit" /\ exitCh[c] # "empty"}
       IN IF ready = {}
          THEN /\ pc' = Set(pc, c, "stop_parked")
               /\ Log(c, Ev("park", TRUE, <<>>, NoState), FALSE)
               /\ UNCHANGED selected
          ELSE /\ \E s \in ready : selected' = Set(selected, c, s)
               /\ pc' = Set(pc, c, "stop_woken")
               /\ UNCHANGED <<trace, faulted>>
    /\ UNCHANGED <<engineVars, taskstatus, paused, needsStop, createLocals,
                   stepFrame, stopRes, result>>

\* waitContainerStop returns; StopContainer returns its error or goes on
StopWoken(c) ==
    /\ alive
    /\ pc[c] = "stop_woken"
    /\ LET res == IF selected[c] = "ctx" THEN WaitCtxResult
                  ELSE WaitExitResult(exitCh[c])
       IN IF res = "nil" THEN Goto(c, "stop_delete") ELSE StopRet(c, res)
    /\ UNCHANGED <<engineVars, stopLocals, createLocals, stepFrame, trace, faulted>>

\* ctask.Delete: the engine deletes only a task that does not run
StopDelete(c) ==
    /\ alive
    /\ pc[c] = "stop_delete"
    /\ LET can == task[c] \in {"Created", "Stopped"}
       IN \E ok \in Outcomes(can) :
             /\ Log(c, Ev("TaskDelete", ok, <<>>, NoState), can /\ ~ok)
             /\ task' = Set(task, c, IF ok THEN "none" ELSE task[c])
             /\ pid' = Set(pid, c, IF ok THEN 0 ELSE pid[c])
             /\ sigs' = Set(sigs, c, IF ok THEN {} ELSE sigs[c])
             /\ StopRet(c, IF ok THEN "nil" ELSE "engineErr")
    /\ UNCHANGED <<rec, cmode, waitReg, exitCh, adds, dels,
                   stopLocals, createLocals, stepFrame>>

\* ------------------------------------------------ environment
\* the task's process exits (killed, or by itself); a paused process does
\* not run and so does not exit
TaskExit(c) ==
    /\ alive
    /\ task[c] \in {"Running", "Unknown"}
    /\ task' = Set(task, c, "Stopped")
    /\ UNCHANGED <<rec, cmode, pid, sigs, waitReg, exitCh, adds, dels,
                   driverVars, stopLocals, createLocals, callVars, listVars, utilVars>>

\* the engine delivers the exit status on the registered channel: the
\* status of the exited task, or an error status when it cannot get one.
\* A goroutine parked in the select is woken with the exit case.
DeliverExit(c) ==
    /\ alive
    /\ waitReg[c]
    /\ exitCh[c] = "empty"
    /\ \E s \in {"ok", "err"} :
          /\ (s = "ok") => (task[c] = "Stopped")
          /\ exitCh' = Set(exitCh, c, s)
    /\ IF pc[c] = "stop_parked"
       THEN /\ pc' = Set(pc, c, "stop_woken")
            /\ selected' = Set(selected, c, "exit")
       ELSE UNCHANGED <<pc, selected>>
    /\ UNCHANGED <<rec, cmode, task, pid, sigs, waitReg, adds, dels, driverVars,
                   taskstatus, paused, needsStop, createLocals,
                   op, calls, cancelled, durArg, trace, result, stopRes, start,
                   faulted, prev, listVars, utilVars>>

\* the caller cancels the context of the running StopContainer.  The driver
\* reads ctx only in waitContainerStop's select (an engine call made with a
\* done ctx fails, which Outcomes covers), so a cancellation made earlier
\* in the call is seen as one made when the select is reached.  A goroutine
\* parked in the select is woken with the ctx.Done case.
Cancel(c) ==
    /\ alive
    /\ pc[c] \in {"stop_select", "stop_parked"}
    /\ ~cancelled[c]
    /\ cancelled' = Set(cancelled, c, TRUE)
    /\ IF pc[c] = "stop_parked"
       THEN /\ pc' = Set(pc, c, "stop_woken")
            /\ selected' = Set(selected, c, "ctx")
       ELSE UNCHANGED <<pc, selected>>
    /\ UNCHANGED <<engineVars, driverVars, taskstatus, paused, needsStop,
                   createLocals, op, calls, durArg, trace, result, stopRes,
                   start, faulted, prev, listVars, utilVars>>


\* a top-level operation other than StopContainer returns res
TopRet(c, res) ==
    /\ result' = Set(result, c, res)
    /\ pc' = Set(pc, c, "done")
    /\ UNCHANGED stopRes

\* ------------------------------------------------ DeleteContainer
\* a caller invokes DeleteContainer(ctx, container) with container.ID = c;
\* it starts with c.StopContainer(ctx, container.ID, nil)
CallDelete(c) ==
    /\ Enter(c, "delete", "stop_load")
    /\ durArg' = Set(durArg, c, "nil")
    /\ UNCHANGED <<createLocals, attach>>

\* cniInit(container.ID, "eth0", c.Mgmt): builds a fresh RuntimeConf, whose
\* NetNS is not set; parsing the configuration list may fail
DeleteCniInit(c) ==
    /\ alive
    /\ pc[c] = "del_cniInit"
    /\ \E ok \in Outcomes(TRUE) :
          /\ Log(c, Ev("cniInit", ok, <<>>, NoState), ~ok)
          /\ netNS' = Set(netNS, c, IF ok THEN NoPath ELSE netNS[c])
          /\ IF ok THEN Goto(c, "del_delNet") ELSE TopRet(c, "engineErr")
    /\ UNCHANGED <<engineVars, stopLocals, nodeMode, nsPath, cnic, stepFrame>>

\* cnic.DelNetworkList(ctx, cncl, cnirc)
DeleteDelNet(c) ==
    /\ alive
    /\ pc[c] = "del_delNet"
    /\ \E ok \in Outcomes(TRUE) :
          /\ Log(c, Ev("DelNetworkList", ok, netNS[c], NoState), ~ok)
          /\ IF ok THEN Goto(c, "del_load") ELSE TopRet(c, "engineErr")
    /\ dels' = Set(dels, c, dels[c] + 1)
    /\ UNCHANGED <<rec, cmode, task, pid, sigs, waitReg, exitCh, adds,
                   stopLocals, createLocals, stepFrame>>

\* c.client.LoadContainer(ctx, container.ID)
DeleteLoad(c) ==
    /\ alive
    /\ pc[c] = "del_load"
    /\ \E ok \in Outcomes(rec[c]) :
          /\ Log(c, Ev("LoadContainer", ok, <<>>, NoState), rec[c] /\ ~ok)
          /\ IF ok THEN Goto(c, "del_remove") ELSE TopRet(c, "engineErr")
    /\ UNCHANGED <<engineVars, stopLocals, createLocals, stepFrame>>

\* cont.Delete(ctx, WithSnapshotCleanup): the engine refuses to delete a
\* container that still has a task
DeleteRemove(c) ==
    /\ alive
    /\ pc[c] = "del_remove"
    /\ LET can == rec[c] /\ task[c] = "none"
       IN \E ok \in Outcomes(can) :
             /\ Log(c, Ev("ContainerDelete", ok, <<>>, NoState), can /\ ~ok)
             /\ rec' = Set(rec, c, IF ok THEN FALSE ELSE rec[c])
             /\ labels' = Set(labels, c, IF ok THEN NoLabels ELSE labels[c])
             /\ TopRet(c, IF ok THEN "nil" ELSE "engineErr")
    /\ UNCHANGED <<cmode, task, pid, sigs, waitReg, exitCh, adds, dels,
                   stopLocals, createLocals, callFrame, attach, listed>>

\* ------------------------------------------------ CreateContainer
AfterNetMode == "cr_newContainer"

AfterStart == "cr_nsLoad"

\* after LinkContainerNS: if cnic != nil
\* variant: the plugin chain is never run after the namespace link
AfterLinkDone(hasCnic) == "done"

AfterLink(hasCnic) == IF hasCnic THEN "cr_add" ELSE "done"

AfterAdd == "cr_labels"

\* a caller invokes CreateContainer(ctx, node) with node.LongName = c
CallCreate(c) ==
    /\ Enter(c, "create", "cr_getImage")
    /\ \E m \in Modes : nodeMode' = Set(nodeMode, c, m)
    /\ nsPath' = Set(nsPath, c, NoPath)
    /\ cnic' = Set(cnic, c, FALSE)
    /\ netNS' = Set(netNS, c, NoPath)
    /\ attach' = Set(attach, c, NoAttach)
    /\ UNCHANGED durArg

\* a step of CreateContainer that changes nothing in the engine and may fail
CreatePlain(c, from, name, next) ==
    /\ alive
    /\ pc[c] = from
    /\ \E ok \in Outcomes(TRUE) :
          /\ Log(c, Ev(name, ok, <<>>, NoState), ~ok)
          /\ IF ok THEN Goto(c, next) ELSE TopRet(c, "engineErr")
    /\ UNCHANGED <<engineVars, stopLocals, createLocals, stepFrame>>

\* c.client.GetImage
CreateGetImage(c) == CreatePlain(c, "cr_getImage", "GetImage", "cr_spec")

\* shlex.Split(node.Cmd), the mounts and the spec options
CreateBuildSpec(c) == CreatePlain(c, "cr_spec", "BuildSpec", "cr_netmode")

\* switch node.NetworkMode: host and none prepare no plugin chain; every
\* other mode calls cniInit and converts the port bindings
CreateNetMode(c) ==
    /\ alive
    /\ pc[c] = "cr_netmode"
    /\ IF UsesCNI(nodeMode[c])
       THEN \E ok \in Outcomes(TRUE) :
               /\ Log(c, Ev("cniInit", ok, <<>>, NoState), ~ok)
               /\ cnic' = Set(cnic, c, ok)
               /\ IF ok THEN Goto(c, AfterNetMode) ELSE TopRet(c, "engineErr")
       ELSE /\ Goto(c, AfterNetMode)
            /\ UNCHANGED <<trace, faulted, cnic>>
    /\ UNCHANGED <<engineVars, stopLocals, nodeMode, nsPath, netNS, stepFrame>>

\* c.client.NewContainer(ctx, node.LongName, ...): record and snapshot
CreateNewContainer(c) ==
    /\ alive
    /\ pc[c] = "cr_newContainer"
    /\ \E ok \in Outcomes(~rec[c]) :
          /\ Log(c, Ev("NewContainer", ok, <<>>, NoState), ~rec[c] /\ ~ok)
          /\ rec' = Set(rec, c, rec[c] \/ ok)
          /\ cmode' = Set(cmode, c, IF ok THEN nodeMode[c] ELSE cmode[c])
          /\ adds' = Set(adds, c, IF ok THEN 0 ELSE adds[c])
          /\ dels' = Set(dels, c, IF ok THEN 0 ELSE dels[c])
          /\ labels' = Set(labels, c, IF ok THEN NodeLabels ELSE labels[c])
          /\ IF ok THEN Goto(c, "cr_startLoad") ELSE TopRet(c, "engineErr")
    /\ UNCHANGED <<task, pid, sigs, waitReg, exitCh,
                   stopLocals, createLocals, callFrame, attach, listed>>

\* StartContainer: c.client.LoadContainer
StartLoad(c) ==
    /\ alive
    /\ pc[c] = "cr_startLoad"
    /\ \E ok \in Outcomes(rec[c]) :
          /\ Log(c, Ev("LoadContainer", ok, <<>>, NoState), rec[c] /\ ~ok)
          /\ IF ok THEN Goto(c, "cr_newTask") ELSE TopRet(c, "engineErr")
    /\ UNCHANGED <<engineVars, stopLocals, createLocals, stepFrame>>

\* StartContainer: container.NewTask; on an error log.Fatal ends the process
StartNewTask(c) ==
    /\ alive
    /\ pc[c] = "cr_newTask"
    /\ \E ok \in Outcomes(task[c] = "none") :
          /\ Log(c, Ev("NewTask", ok, <<>>, NoState), task[c] = "none" /\ ~ok)
          /\ IF ok
             THEN /\ task' = Set(task, c, "Created")
                  /\ \E p \in Pids : pid' = Set(pid, c, p)
                  /\ sigs' = Set(sigs, c, {})
                  /\ Goto(c, "cr_taskStart")
                  /\ UNCHANGED alive
             ELSE /\ alive' = FALSE
                  /\ Goto(c, "fatal")
                  /\ UNCHANGED <<task, pid, sigs>>
    /\ UNCHANGED <<rec, cmode, waitReg, exitCh, adds, dels, gracefulShutdown,
                   stopLocals, createLocals,
                   op, calls, cancelled, durArg, start, prev, listVars, utilVars>>

\* StartContainer: task.Start
StartTask(c) ==
    /\ alive
    /\ pc[c] = "cr_taskStart"
    /\ \E ok \in Outcomes(task[c] = "Created") :
          /\ Log(c, Ev("Start", ok, <<>>, NoState), task[c] = "Created" /\ ~ok)
          /\ task' = Set(task, c, IF ok THEN "Running" ELSE task[c])
          /\ IF ok THEN Goto(c, AfterStart) ELSE TopRet(c, "engineErr")
    /\ UNCHANGED <<rec, cmode, pid, sigs, waitReg, exitCh, adds, dels,
                   stopLocals, createLocals, stepFrame>>

\* GetNSPath: getContainerTask: c.client.LoadContainer; on an error
\* node.NSPath is assigned the empty string
NSLoad(c) ==
    /\ alive
    /\ pc[c] = "cr_nsLoad"
    /\ \E ok \in Outcomes(rec[c]) :
          /\ Log(c, Ev("LoadContainer", ok, <<>>, NoState), rec[c] /\ ~ok)
          /\ IF ok THEN Goto(c, "cr_nsTask") ELSE TopRet(c, "engineErr")
    /\ nsPath' = Set(nsPath, c, NoPath)
    /\ UNCHANGED <<engineVars, stopLocals, nodeMode, cnic, netNS, stepFrame>>

\* GetNSPath: getContainerTask: cont.Task, then the path of task.Pid() is
\* assigned to node.NSPath
NSTask(c) ==
    /\ alive
    /\ pc[c] = "cr_nsTask"
    /\ \E ok \in Outcomes(task[c] # "none") :
          LET path == IF ok THEN NSPathOf(pid[c]) ELSE NoPath
          IN /\ Log(c, Ev("GetNSPath", ok, path, NoState), task[c] # "none" /\ ~ok)
             /\ nsPath' = Set(nsPath, c, path)
             /\ IF ok THEN Goto(c, "cr_link") ELSE TopRet(c, "engineErr")
    /\ UNCHANGED <<engineVars, stopLocals, nodeMode, cnic, netNS, stepFrame>>

\* utils.LinkContainerNS(node.NSPath, node.LongName), then if cnic != nil
CreateLink(c) ==
    /\ alive
    /\ pc[c] = "cr_link"
    /\ \E ok \in Outcomes(TRUE) :
          /\ Log(c, Ev("LinkContainerNS", ok, nsPath[c], NoState), ~ok)
          /\ IF ~ok THEN TopRet(c, "engineErr")
             ELSE IF AfterLink(cnic[c]) = "done" THEN TopRet(c, "nil")
             ELSE Goto(c, AfterLink(cnic[c]))
    /\ UNCHANGED <<engineVars, stopLocals, createLocals, stepFrame>>

\* cnirc.NetNS = node.NSPath; cnic.AddNetworkList(ctx, cncl, cnirc); then
\* current.NewResultFromResult, whose error is dropped: a result that does
\* not convert leaves a nil result, and reading its IPs ends the process
CreateAdd(c) ==
    /\ alive
    /\ pc[c] = "cr_add"
    /\ netNS' = Set(netNS, c, nsPath[c])
    /\ \E ok \in Outcomes(TRUE), converts \in BOOLEAN :
          /\ Log(c, Ev("AddNetworkList", ok, nsPath[c], NoState), ~ok)
          /\ IF ~ok
             THEN /\ ~converts
                  /\ TopRet(c, "engineErr")
                  /\ UNCHANGED <<attach, alive>>
             ELSE IF converts
             THEN /\ \E r \in AttachResults : attach' = Set(attach, c, r)
                  /\ Goto(c, AfterAdd)
                  /\ UNCHANGED alive
             ELSE /\ alive' = FALSE
                  /\ Goto(c, "panic")
                  /\ UNCHANGED attach
    /\ adds' = Set(adds, c, adds[c] + 1)
    /\ UNCHANGED <<rec, cmode, task, pid, sigs, waitReg, exitCh, dels,
                   stopLocals, nodeMode, nsPath, cnic, labels, listed,
                   op, calls, cancelled, durArg, start, prev, gracefulShutdown,
                   utilVars>>

\* newContainer.SetLabels(ctx, additionalLabels)
CreateSetLabels(c) ==
    /\ alive
    /\ pc[c] = "cr_labels"
    /\ \E ok \in Outcomes(rec[c]) :
          /\ Log(c, Ev("SetLabels", ok, <<>>, NoState), rec[c] /\ ~ok)
          /\ labels' = Set(labels, c, IF ok THEN SetLabels(labels[c], AttachLabels(attach[c]))
                                      ELSE labels[c])
          /\ TopRet(c, IF ok THEN "nil" ELSE "engineErr")
    /\ UNCHANGED <<engineVars, stopLocals, createLocals, callFrame, attach, listed>>

\* ------------------------------------------------ ListContainers
\* string(status.Status): the value of a containerd.ProcessStatus
StateString(st) ==
    CASE st = "Created" -> "created"
      [] st = "Running" -> "running"
      [] st = "Paused" -> "paused"
      [] st = "Pausing" -> "pausing"
      [] st = "Stopped" -> "stopped"
      [] st = "Unknown" -> "unknown"

\* strings.Title of a word: its first letter in upper case
Upper(ch) ==
    CASE ch = "c" -> "C" [] ch = "r" -> "R" [] ch = "p" -> "P"
      [] ch = "s" -> "S" [] ch = "u" -> "U" [] OTHER -> ch
Title(s) == IF s = "" THEN "" ELSE Upper(Char(s, 1)) \o SubSeq(s, 2, Len(s))

\* status.ExitStatus and timeSinceInHuman(status.ExitTime) of a stopped task
ExitCodes == {0, 137}
HumanDurations == {"5 minutes"}
TimeSinceInHuman(d) == d \o " ago"

\* variant: the capitalized state name for every state
StatusTextOfState(st, code, d) == Title(StateString(st))

\* ctr.Status for a container with a task
StatusText(st, code, d) ==
    CASE st = "Stopped" -> "Exited (" \o Itoa(code) \o ") " \o TimeSinceInHuman(d)
      [] st = "Running" -> "Up"
      [] OTHER -> Title(StateString(st))

\* ctr.State and ctr.Pid for a container without task
NoTaskState == Title(StateString("Unknown"))
NoTaskPid == -1

\* a caller invokes ListContainers(ctx, filter), the filter selecting c
CallList(c) ==
    /\ Enter(c, "list", "ls_containers")
    /\ UNCHANGED <<durArg, createLocals, attach>>

\* c.client.Containers(ctx, filterstring); with no container the list is empty
ListQuery(c) ==
    /\ alive
    /\ pc[c] = "ls_containers"
    /\ \E ok \in Outcomes(TRUE) :
          /\ Log(c, Ev("Containers", ok, <<>>, NoState), ~ok)
          /\ IF ~ok THEN TopRet(c, "engineErr")
             ELSE IF rec[c] THEN Goto(c, "ls_info")
             ELSE TopRet(c, "nil")
    /\ UNCHANGED <<engineVars, stopLocals, createLocals, stepFrame>>

\* i.Info(ctx), ctr.Labels = info.Labels and extractIPInfoFromLabels
ListInfo(c) ==
    /\ alive
    /\ pc[c] = "ls_info"
    /\ \E ok \in Outcomes(rec[c]) :
          LET x == ExtractIPInfoFromLabels(labels[c])
          IN /\ Log(c, Ev("Info", ok, <<>>, NoState), rec[c] /\ ~ok)
             /\ IF ok /\ ~x.err
                THEN /\ listed' = Set(listed, c,
                            GenericContainer(FALSE, "", "", 0, labels[c], x.ips))
                     /\ Goto(c, "ls_task")
                ELSE /\ UNCHANGED listed
                     /\ TopRet(c, "engineErr")
    /\ UNCHANGED <<engineVars, stopLocals, createLocals, callFrame, labels, attach>>

\* i.Task(ctx, nil): a NotFound error clears taskfound; with any other error
\* taskfound stays true and task is nil, so that task.Status ends the process
ListTask(c) ==
    /\ alive
    /\ pc[c] = "ls_task"
    /\ \E r \in {"task", "notFound", "error"} :
          /\ (r = "task") => (task[c] # "none")
          /\ (r = "notFound") => (task[c] = "none")
          /\ Log(c, Ev("Task", r = "task", <<>>, NoState), r = "error")
          /\ CASE r = "task" ->
                    /\ Goto(c, "ls_status")
                    /\ UNCHANGED <<listed, alive>>
               [] r = "notFound" ->
                    /\ listed' = Set(listed, c,
                           GenericContainer(TRUE, NoTaskState, "Unknown", NoTaskPid,
                                            listed[c].Labels, listed[c].NetworkSettings))
                    /\ TopRet(c, "nil")
                    /\ UNCHANGED alive
               [] r = "error" ->
                    /\ alive' = FALSE
                    /\ Goto(c, "panic")
                    /\ UNCHANGED listed
    /\ UNCHANGED <<engineVars, stopLocals, createLocals, labels, attach,
                   op, calls, cancelled, durArg, start, prev, gracefulShutdown,
                   utilVars>>

\* task.Status(ctx), on an error log.Fatalf; ctr.State, ctr.Status, ctr.Pid
ListStatus(c) ==
    /\ alive
    /\ pc[c] = "ls_status"
    /\ \E ok \in Outcomes(task[c] # "none") :
          /\ Log(c, Ev("Status", ok, <<>>, NoState), task[c] # "none" /\ ~ok)
          /\ IF ok
             THEN /\ \E code \in ExitCodes, d \in HumanDurations :
                        listed' = Set(listed, c,
                           GenericContainer(TRUE, StateString(task[c]),
                                            StatusText(task[c], code, d), pid[c],
                                            listed[c].Labels, listed[c].NetworkSettings))
                  /\ TopRet(c, "nil")
                  /\ UNCHANGED alive
             ELSE /\ alive' = FALSE
                  /\ Goto(c, "fatal")
                  /\ UNCHANGED listed
    /\ UNCHANGED <<engineVars, stopLocals, createLocals, labels, attach,
                   op, calls, cancelled, durArg, start, prev, gracefulShutdown,
                   utilVars>>

\* ------------------------------------------------ specification
StopStep(c) ==
    \/ StopLoad(c) \/ StopTask(c) \/ StopStatus(c) \/ StopWaitReg(c)
    \/ StopResume(c) \/ StopKill(c) \/ StopSelect(c) \/ StopWoken(c)
    \/ StopDelete(c)

DeleteStep(c) ==
    \/ DeleteCniInit(c) \/ DeleteDelNet(c) \/ DeleteLoad(c) \/ DeleteRemove(c)

CreateStep(c) ==
    \/ CreateGetImage(c) \/ CreateBuildSpec(c) \/ CreateNetMode(c)
    \/ CreateNewContainer(c) \/ StartLoad(c) \/ StartNewTask(c) \/ StartTask(c)
    \/ NSLoad(c) \/ NSTask(c) \/ CreateLink(c) \/ CreateAdd(c)
    \/ CreateSetLabels(c)

ListStep(c) ==
    \/ ListQuery(c) \/ ListInfo(c) \/ ListTask(c) \/ ListStatus(c)

\* a step of the driver's code in the operation running for c
DriverStep(c) == StopStep(c) \/ DeleteStep(c) \/ CreateStep(c) \/ ListStep(c)

Next ==
    \E c \in Containers :
        \/ CallStop(c) \/ CallDelete(c) \/ CallCreate(c) \/ CallList(c)
        \/ StopLoad(c)
        \/ StopTask(c)
        \/ StopStatus(c)
        \/ StopWaitReg(c)
        \/ StopResume(c)
        \/ StopKill(c)
        \/ StopSelect(c)
        \/ StopWoken(c)
        \/ StopDelete(c)
        \/ DeleteCniInit(c)
        \/ DeleteDelNet(c)
        \/ DeleteLoad(c)
        \/ DeleteRemove(c)
        \/ CreateGetImage(c)
        \/ CreateBuildSpec(c)
        \/ CreateNetMode(c)
        \/ CreateNewContainer(c)
        \/ StartLoad(c)
        \/ StartNewTask(c)
        \/ StartTask(c)
        \/ NSLoad(c)
        \/ NSTask(c)
        \/ CreateLink(c)
        \/ CreateAdd(c)
        \/ CreateSetLabels(c)
        \/ ListQuery(c)
        \/ ListInfo(c)
        \/ ListTask(c)
        \/ ListStatus(c)
        \/ TaskExit(c) \/ DeliverExit(c) \/ Cancel(c)

Spec == Init /\ [][Next]_vars

\* The driver's goroutine keeps running: a step of the code that can be
\* taken is eventually taken.  Nothing is assumed of the engine, the task
\* or the caller.  The calls are those that reach the wait, StopContainer
\* and DeleteContainer, made on any record and task the engine may hold;
\* the initial states are those of a driver built without graceful shutdown
\* over bridge-mode records: neither is read by StopContainer.
LiveInit == Init /\ ~gracefulShutdown /\ \A c \in Containers : cmode[c] = "bridge"

LiveNext ==
    \E c \in Containers :
        \/ CallStop(c) \/ CallDelete(c)
        \/ StopLoad(c)
        \/ StopTask(c)
        \/ StopStatus(c)
        \/ StopWaitReg(c)
        \/ StopResume(c)
        \/ StopKill(c)
        \/ StopSelect(c)
        \/ StopWoken(c)
        \/ StopDelete(c)
        \/ DeleteCniInit(c)
        \/ DeleteDelNet(c)
        \/ DeleteLoad(c)
        \/ DeleteRemove(c)
        \/ TaskExit(c) \/ DeliverExit(c) \/ Cancel(c)

LiveSpec == LiveInit /\ [][LiveNext]_vars /\ \A c \in Containers : WF_vars(DriverStep(c))

\* One driver instance called for two containers at once: a StopContainer is
\* run for each container, on its own goroutine and with its own context,
\* the two interleaved in any way.  Each container has a record and a task
\* that is running, paused or stopped.
ConcInit ==
    /\ InitEngine(Containers) /\ InitDriver(Containers) /\ UtilIdle
    /\ ~gracefulShutdown
    /\ \A c \in Containers :
          rec[c] /\ cmode[c] = "bridge" /\ task[c] \in {"Running", "Paused", "Stopped"}

ConcNext ==
    \E c \in Containers :
        \/ calls[c] = 0 /\ CallStop(c)
        \/ StopLoad(c)
        \/ StopTask(c)
        \/ StopStatus(c)
        \/ StopWaitReg(c)
        \/ StopResume(c)
        \/ StopKill(c)
        \/ StopSelect(c)
        \/ StopWoken(c)
        \/ StopDelete(c)
        \/ TaskExit(c) \/ DeliverExit(c) \/ Cancel(c)

ConcSpec == ConcInit /\ [][ConcNext]_vars /\ \A c \in Containers : WF_vars(DriverStep(c))

\* ================================================== operations that are
\* not made on one container: SetMgmtNet, PullImageIfRequired, and the
\* translations of a node's configuration and of the engine's answers
MaxPulls == 2          \* PullImageIfRequired calls made for one reference
MaxBindLen == 7        \* length of a bind string

\* ------------------------------------------------ SetMgmtNet
\* the descriptors SetMgmtNet is called with
MgmtNets ==
    {MgmtNet(n, b, v4, v6, mtu) :
        n \in {"", "clab", "mgmt"}, b \in {"", "br0"},
        v4 \in {"", "172.20.20.0/24"}, v6 \in {"", "2001:172:20:20::/64"},
        mtu \in {"", "1500"}}

\* netname := "clab"; if n.Network == "" { netname = n.Network }
NetName(n) == IF n.Network = "" THEN n.Network ELSE "clab"

\* the descriptor SetMgmtNet(n) records in c.Mgmt
SetMgmtNetResult(n) ==
    IF n.Bridge = "" THEN [n EXCEPT !.Bridge = "br-" \o NetName(n)] ELSE n

\* a caller invokes SetMgmtNet(n), with a descriptor of its own or with the
\* one the driver has recorded
SetMgmtNet ==
    /\ scen = "SetMgmtNet"
    /\ \E n \in MgmtNets \cup {Mgmt} :
          /\ fin' = <<n>>
          /\ Mgmt' = SetMgmtNetResult(n)
    /\ fout' = <<"set">>
    /\ UNCHANGED <<lifeVars, images, scen, ppc, pcalls, ptrace, cvxVars>>

\* ------------------------------------------------ PullImageIfRequired
\* image names a node can ask for
ImageNames == {"alpine", "alpine:3", "ghcr.io/nokia/srlinux"}

\* utils.GetCanonicalImageName: the reference with registry and tag
HasChar(s, ch) == \E i \in 1..Len(s) : Char(s, i) = ch
GetCanonicalImageName(name) ==
    LET full == IF HasChar(name, "/") THEN name ELSE "docker.io/library/" \o name
    IN IF HasChar(name, ":") THEN full ELSE full \o ":latest"

ImageRefs == {GetCanonicalImageName(n) : n \in ImageNames}

PEv(call, ok, arg, n) == [call |-> call, ok |-> ok, arg |-> arg, n |-> n]

\* variant: the pull is made whatever the store holds
PullAlways(listing, ref) == TRUE

\* if len(images) > 0 { return nil }: the pull is skipped when the listing
\* holds any image
PullNeeded(listing, ref) == ~(Cardinality(listing) > 0)

\* a caller invokes PullImageIfRequired(ctx, imagename)
CallPull ==
    /\ scen = "PullImageIfRequired"
    /\ ppc \in {"idle", "done"}
    /\ pcalls < MaxPulls
    /\ pcalls' = pcalls + 1
    /\ ppc' = "list"
    /\ UNCHANGED <<lifeVars, Mgmt, images, scen, fin, fout, ptrace, cvxVars>>

\* c.client.ListImages(ctx) and the test of its length
PullList ==
    /\ scen = "PullImageIfRequired"
    /\ ppc = "list"
    /\ \E ok \in Outcomes(TRUE) :
          /\ ptrace' = Append(ptrace, PEv("ListImages", ok, images, pcalls))
          /\ IF ~ok
             THEN ppc' = "done" /\ fout' = Append(fout, "engineErr")
             ELSE IF PullNeeded(images, GetCanonicalImageName(fin[1]))
             THEN ppc' = "pull" /\ UNCHANGED fout
             ELSE ppc' = "done" /\ fout' = Append(fout, "nil")
    /\ UNCHANGED <<lifeVars, Mgmt, images, scen, fin, pcalls, cvxVars>>

\* c.client.Pull(ctx, canonicalimage, containerd.WithPullUnpack)
PullPull ==
    /\ scen = "PullImageIfRequired"
    /\ ppc = "pull"
    /\ LET ref == GetCanonicalImageName(fin[1])
       IN \E ok \in Outcomes(TRUE) :
             /\ ptrace' = Append(ptrace, PEv("Pull", ok, {ref}, pcalls))
             /\ images' = IF ok THEN images \cup {ref} ELSE images
             /\ fout' = Append(fout, IF ok THEN "nil" ELSE "engineErr")
    /\ ppc' = "done"
    /\ UNCHANGED <<lifeVars, Mgmt, scen, fin, pcalls, cvxVars>>

\* ------------------------------------------------ splitting strings
\* strings.Index: the first place of sep in s, 0 when there is none
IndexOf(s, sep) ==
    LET S == {i \in 1..(Len(s) - Len(sep) + 1) : SubSeq(s, i, i + Len(sep) - 1) = sep}
    IN IF S = {} THEN 0 ELSE CHOOSE i \in S : \A j \in S : i <= j

\* strings.SplitN(s, sep, n) for n >= 1 and a non-empty sep
RECURSIVE SplitN(_, _, _)
SplitN(s, sep, n) ==
    LET i == IndexOf(s, sep)
    IN IF n = 1 \/ i = 0 THEN <<s>>
       ELSE <<SubSeq(s, 1, i - 1)>> \o SplitN(SubSeq(s, i + Len(sep), Len(s)), sep, n - 1)

\* strings.Split(s, sep)
Split(s, sep) == SplitN(s, sep, Len(s) + 1)

\* the strings of at most n characters over an alphabet
RECURSIVE StringsUpTo(_, _)
StringsUpTo(A, n) ==
    IF n = 0 THEN {""}
    ELSE LET S == StringsUpTo(A, n - 1) IN S \cup {s \o ch : s \in S, ch \in A}

\* ------------------------------------------------ bind mounts
\* the bind strings of a node (node.Binds, cfg.Binds)
BindStrings == StringsUpTo({"a", ":", ","}, MaxBindLen)

\* specs.Mount
Mount(src, dst, type, opts) ==
    [Source |-> src, Destination |-> dst, Type |-> type, Options |-> opts]

\* errInvalidBind
ErrInvalidBind == "invalid bind mount provided"

\* what a translation gives: an error (and then no mounts), or the mounts;
\* "panic" is a run-time panic of the goroutine
Translated(err, mounts) == [err |-> err, mounts |-> mounts]

\* podman convertMounts: the loop over the binds, from the i-th on
RECURSIVE ConvertMountsFrom(_, _, _)
ConvertMountsFrom(mounts, i, acc) ==
    IF i > Len(mounts) THEN Translated("nil", acc)
    ELSE LET mnt == mounts[i]
             mntSplit == SplitN(mnt, ":", 3)
         IN IF Len(mntSplit) = 1
            THEN Translated(ErrInvalidBind \o ": " \o mnt, <<>>)
            ELSE ConvertMountsFrom(mounts, i + 1,
                    Append(acc, Mount(mntSplit[1], mntSplit[2], "bind",
                                      IF Len(mntSplit) = 3
                                      THEN Split(mntSplit[3], ",") ELSE <<>>)))

\* podman convertMounts
ConvertMounts(mounts) == ConvertMountsFrom(mounts, 1, <<>>)

\* containerd CreateContainer: the loop over node.Binds, from the i-th on.
\* s[1] and s[2] are read unchecked: an index out of range is a panic
RECURSIVE ContainerdMountsFrom(_, _, _)
ContainerdMountsFrom(binds, i, acc) ==
    IF i > Len(binds) THEN Translated("nil", acc)
    ELSE LET mount == binds[i]
             s == Split(mount, ":")
             base == <<"rbind", "rprivate">>
         IN IF Len(s) < 2 THEN Translated("panic", <<>>)
            ELSE IF Len(mount) = 3
            THEN IF Len(s) < 3 THEN Translated("panic", <<>>)
                 ELSE ContainerdMountsFrom(binds, i + 1,
                         Append(acc, Mount(s[1], s[2], "", base \o Split(s[3], ","))))
            ELSE ContainerdMountsFrom(binds, i + 1,
                         Append(acc, Mount(s[1], s[2], "", base)))

\* containerd CreateContainer: mounts
ContainerdMounts(binds) == ContainerdMountsFrom(binds, 1, <<>>)

\* the application of a translation to the argument drawn for it
Apply(name, out) ==
    /\ scen = name
    /\ fout = <<>>
    /\ fout' = <<out>>
    /\ UNCHANGED <<lifeVars, Mgmt, images, scen, fin, ppc, pcalls, ptrace, cvxVars>>

ApplyConvertMounts == Apply("convertMounts", ConvertMounts(fin[1]))

ApplyContainerdMounts == Apply("containerdMounts", ContainerdMounts(fin[1]))

\* ------------------------------------------------ podman createContainerSpec
\* shlex.Split: the words of a command line; an unclosed quote is an error
QuoteCount(s) == Cardinality({i \in 1..Len(s) : Char(s, i) = "\""})
ShlexSplit(s) ==
    IF QuoteCount(s) % 2 = 1 THEN [ok |-> FALSE, words |-> <<>>]
    ELSE [ok |-> TRUE, words |-> IF s = "" THEN <<>> ELSE Split(s, " ")]

\* humanize.ParseBytes: a number followed by a unit; (0, error) otherwise
ByteUnits == [u \in {"", "B", "KB", "MB", "GB"} |->
                CASE u \in {"", "B"} -> 1
                  [] u = "KB" -> 1000
                  [] u = "MB" -> 1000 * 1000
                  [] u = "GB" -> 1000 * 1000 * 1000]
LeadDigits(s) ==
    Cardinality({i \in 1..Len(s) : \A j \in 1..i : IsDigit(Char(s, j))})
ParseBytes(s) ==
    LET k == LeadDigits(s)
        unit == SubSeq(s, k + 1, Len(s))
    IN IF k = 0 \/ unit \notin DOMAIN ByteUnits THEN [ok |-> FALSE, val |-> 0]
       ELSE [ok |-> TRUE, val |-> NatOf(SubSeq(s, 1, k)) * ByteUnits[unit]]

\* net.ParseMAC: 6, 8 or 20 groups of two hexadecimal digits
HexDigits == {"0", "1", "2", "3", "4", "5", "6", "7", "8", "9",
              "a", "b", "c", "d", "e", "f", "A", "B", "C", "D", "E", "F"}
ParseMAC(s) ==
    LET g == Split(s, ":")
    IN IF /\ Len(g) \in {6, 8, 20}
          /\ \A i \in 1..Len(g) :
                Len(g[i]) = 2 /\ Char(g[i], 1) \in HexDigits /\ Char(g[i], 2) \in HexDigits
       THEN [ok |-> TRUE, mac |-> g]
       ELSE [ok |-> FALSE, mac |-> <<>>]

\* net.ParseIP of a dotted IPv4 address: nil unless four numbers up to 255
ParseIP(s) ==
    LET g == Split(s, ".")
    IN IF /\ Len(g) = 4
          /\ \A i \in 1..4 :
                /\ g[i] # ""
                /\ \A j \in 1..Len(g[i]) : IsDigit(Char(g[i], j))
                /\ NatOf(g[i]) <= 255
       THEN <<s>> ELSE <<>>

\* types.NodeConfig, the fields createContainerSpec reads; the port
\* bindings, the port set and cfg.MgmtIPv6Address are empty
NodeConfig(cmd, binds, memory, mac, mode, ip4) ==
    [Cmd |-> cmd, Binds |-> binds, Memory |-> memory, MacAddress |-> mac,
     NetworkMode |-> mode, MgmtIPv4Address |-> ip4, Labels |-> NodeLabels,
     LongName |-> "clab-lab-n2", ShortName |-> "n2"]

NodeConfigs ==
    {NodeConfig(cmd, binds, memory, mac, mode, ip4) :
        cmd \in {"sh -c", "sh \"x"},
        binds \in {<<>>, <<"/a:/b">>, <<"/a:/b:ro">>, <<"nocolon">>},
        memory \in {"", "1GB", "lots"},
        mac \in {"", "00:1c:73:00:00:01", "00:1c"},
        mode \in {"", "bridge", "host", "none", "container:n1", "container",
                  "container:", "macvlan"},
        ip4 \in {"", "172.20.20.5"}}

\* r.mgmt.Network of the podman runtime
PodmanMgmtNetwork == "clab"

\* specgen.SpecGenerator, the fields that depend on the configuration;
\* MemoryLimit is resLimits.Memory.Limit, <<>> when the pointer is nil
SpecGenerator(name, command, lbls, mounts, mem, nsmode, nsvalue, nets) ==
    [Name |-> name, Command |-> command, Labels |-> lbls, Mounts |-> mounts,
     MemoryLimit |-> mem, NSMode |-> nsmode, NSValue |-> nsvalue, Networks |-> nets]
ZeroSpec == SpecGenerator("", <<>>, NoLabels, <<>>, <<>>, "", "", <<>>)

SpecResult(err, sg, lbls) == [err |-> err, sg |-> sg, cfgLabels |-> lbls]

\* podman createContainerSpec(ctx, cfg).  An error of convertMounts is
\* logged and the spec is built without mounts; an error of ParseBytes is
\* logged and the limit is the 0 that ParseBytes returned with it
CreateContainerSpec(cfg) ==
    LET cmd == ShlexSplit(cfg.Cmd)
        lbls == [k \in {"clab-net-mgmt"} |-> PodmanMgmtNetwork] @@ cfg.Labels
        conv == ConvertMounts(cfg.Binds)
        mounts == IF conv.err # "nil" THEN <<>> ELSE conv.mounts
        parsed == ParseBytes(cfg.Memory)
        mem == IF cfg.Memory # "" THEN <<parsed.val>> ELSE <<>>
        netMode == SplitN(cfg.NetworkMode, ":", 2)
        prefix == SplitN(cfg.LongName, cfg.ShortName, 2)[1]
        mac == ParseMAC(cfg.MacAddress)
        Fail(e) == SpecResult(e, ZeroSpec, lbls)
        Done(nsmode, nsvalue, nets) ==
            SpecResult("nil",
                       SpecGenerator(cfg.LongName, cmd.words, lbls, mounts, mem,
                                     nsmode, nsvalue, nets),
                       lbls)
    IN IF ~cmd.ok THEN SpecResult("shlex", ZeroSpec, cfg.Labels)
       ELSE CASE netMode[1] = "container" ->
                    IF Len(netMode) # 2 \/ netMode[2] = ""
                    THEN Fail("no container name was found")
                    ELSE Done("container", prefix \o netMode[2], <<>>)
              [] netMode[1] = "host" -> Done("host", "", <<>>)
              [] netMode[1] \in {"bridge", ""} ->
                    IF ~mac.ok /\ cfg.MacAddress # ""
                    THEN Fail("invalid MAC address")
                    ELSE Done("bridge", "",
                              <<[Name |-> PodmanMgmtNetwork,
                                 StaticIPs |-> ParseIP(cfg.MgmtIPv4Address),
                                 StaticMAC |-> mac.mac]>>)
              [] OTHER -> Fail("network Mode is not currently supported with Podman")

ApplyCreateContainerSpec == Apply("createContainerSpec", CreateContainerSpec(fin[1]))

\* ------------------------------------------------ management addresses
\* the label maps extractIPInfoFromLabels is given: each of the four address
\* labels is absent or has one of the values
LabelMaps ==
    UNION {[D -> {"", "172.20.20.2", "24", "x"}] :
              D \in SUBSET {"clab.ipv4.addr", "clab.ipv4.netmask",
                            "clab.ipv6.addr", "clab.ipv6.netmask"}}

ApplyExtractIPInfoFromLabels ==
    Apply("extractIPInfoFromLabels", ExtractIPInfoFromLabels(fin[1]))

\* the network data of an inspect result (define.InspectAdditionalNetwork)
NetworkData(a4, l4, gw, a6, l6) ==
    [IPAddress |-> a4, IPPrefixLen |-> l4, Gateway |-> gw,
     GlobalIPv6Address |-> a6, GlobalIPv6PrefixLen |-> l6]

\* what containers.Inspect answers: an error (and then a nil result), or the
\* container's labels and its networks; <<>> is a nil entry of the map
InspectResults ==
    [err : BOOLEAN,
     Labels : {NodeLabels,
               [k \in {"clab-net-mgmt"} |-> ""],
               [k \in {"clab-net-mgmt"} |-> "clab"]},
     Networks : {NoLabels,
                 [k \in {"clab"} |-> <<>>],
                 [k \in {"clab"} |-> <<NetworkData("", 0, "", "", 0)>>],
                 [k \in {"clab"} |-> <<NetworkData("172.20.20.2", 24, "172.20.20.1",
                                                    "2001:172:20:20::2", 64)>>]}]

\* podman extractMgmtIP: its error is always nil.  The error of Inspect is
\* logged, and reading the nil result it comes with is a panic
ExtractMgmtIP(inspectRes) ==
    IF inspectRes.err THEN [panic |-> TRUE, ips |-> ZeroMgmtIPs]
    ELSE LET netName == Get(inspectRes.Labels, "clab-net-mgmt")
         IN IF "clab-net-mgmt" \notin DOMAIN inspectRes.Labels \/ netName = ""
            THEN [panic |-> FALSE, ips |-> ZeroMgmtIPs]
            ELSE IF netName \notin DOMAIN inspectRes.Networks
                       \/ inspectRes.Networks[netName] = <<>>
            THEN [panic |-> FALSE, ips |-> ZeroMgmtIPs]
            ELSE LET mgmtData == inspectRes.Networks[netName][1]
                 IN [panic |-> FALSE,
                     ips |-> MgmtIPs(FALSE, mgmtData.IPAddress, mgmtData.IPPrefixLen,
                                     mgmtData.GlobalIPv6Address,
                                     mgmtData.GlobalIPv6PrefixLen, mgmtData.Gateway)]

ApplyExtractMgmtIP == Apply("extractMgmtIP", ExtractMgmtIP(fin[1]))

\* ------------------------------------------------ specification
\* ------------------------------------------------ filter translation
MaxFilters == 2        \* filters in one sequence

\* types.GenericFilter
GenericFilter(type, field, operator, match) ==
    [FilterType |-> type, Field |-> field, Operator |-> operator, Match |-> match]
FilterTypes == {"label", "name"}
FilterFields == {"x", "y"}
FilterOperators == {"=", "exists", "!="}
FilterMatches == {"1", "2"}
GenericFilters ==
    {GenericFilter(t, f, o, m) : t \in FilterTypes, f \in FilterFields,
                                 o \in FilterOperators, m \in FilterMatches}
FilterSeqs == UNION {[1..n -> GenericFilters] : n \in 0..MaxFilters}

\* variant: no operator is the exists operator
IsExistsNever(operator) == FALSE

\* isExistsOperator of filterStringBuilder and the test of buildFilterString
IsExistsOperator(operator) == operator = "exists"

\* the first switch of filterStringBuilder: the operator written in the query
ContainerdOperator(operator) ==
    CASE operator = "=" -> "=="
      [] IsExistsOperator(operator) -> ""
      [] OTHER -> operator

\* the loop of filterStringBuilder from entry i on
RECURSIVE FilterStringFrom(_, _, _, _)
FilterStringFrom(filter, i, filterstring, delim) ==
    IF i > Len(filter) THEN filterstring
    ELSE LET filterEntry == filter[i]
             field == filterstring \o "labels." \o filterEntry.Field
             next == IF filterEntry.FilterType = "label"
                     THEN IF ~IsExistsOperator(filterEntry.Operator)
                          THEN field \o ContainerdOperator(filterEntry.Operator)
                                     \o filterEntry.Match \o delim
                          ELSE field
                     ELSE filterstring
         IN FilterStringFrom(filter, i + 1, next, ",")

FilterStringBuilder(filter) == FilterStringFrom(filter, 1, "", "")

\* the empty map[string][]string
NoFilters == [k \in {} |-> <<>>]

\* the loop of buildFilterString from entry i on
RECURSIVE BuildFilterFrom(_, _, _)
BuildFilterFrom(gFilters, i, filters) ==
    IF i > Len(gFilters) THEN filters
    ELSE LET gF == gFilters[i]
             filterType == gF.FilterType
             exists == IsExistsOperator(gF.Operator)
             filterOp == IF exists THEN "=" ELSE gF.Operator
             filterValue == IF exists THEN "" ELSE gF.Match
             filterStr == IF filterType = "name" THEN filterValue
                          ELSE gF.Field \o filterOp \o filterValue
             old == IF filterType \in DOMAIN filters THEN filters[filterType]
                    ELSE <<>>
         IN IF filterType # "name" /\ filterOp # "="
            THEN BuildFilterFrom(gFilters, i + 1, filters)
            ELSE BuildFilterFrom(gFilters, i + 1,
                     (filterType :> Append(old, filterStr)) @@ filters)

BuildFilterString(gFilters) == BuildFilterFrom(gFilters, 1, NoFilters)

ApplyFilterStringBuilder == Apply("filterStringBuilder", FilterStringBuilder(fin[1]))

ApplyBuildFilterString == Apply("buildFilterString", BuildFilterString(fin[1]))

\* ------------------------------------------------ cniInit
\* libcni.NetworkConfigList of the "clabmgmt" chain: the bridge plugin with
\* its host-local IPAM ranges, the tuning plugin with the MTU, the portmap
\* plugin
NetworkConfigList(bridge, ranges, mtu) ==
    [Name |-> "clabmgmt", Plugins |-> <<"bridge", "tuning", "portmap">>,
     Bridge |-> bridge, IsDefaultGateway |-> TRUE, IPMasq |-> TRUE,
     HairpinMode |-> TRUE, Ranges |-> ranges, MTU |-> mtu]

\* libcni.RuntimeConf as cniInit returns it: NetNS is not set
RuntimeConf(cId, ifName) == [ContainerID |-> cId, IfName |-> ifName, NetNS |-> ""]

\* libcni.ConfListFromBytes: "mtu": %s is a JSON value only for a number
IsJSONNumber(s) == s # "" /\ \A i \in 1..Len(s) : IsDigit(Char(s, i))

\* cniInit(cId, ifName, mgmtNet): both subnet strings are written into the
\* ranges of the bridge plugin
CniInit(cId, ifName, mgmtNet) ==
    IF IsJSONNumber(mgmtNet.MTU)
    THEN [err |-> FALSE,
          cncl |-> NetworkConfigList(mgmtNet.Bridge,
                       <<mgmtNet.IPv4Subnet, mgmtNet.IPv6Subnet>>, mgmtNet.MTU),
          cnirc |-> RuntimeConf(cId, ifName)]
    ELSE [err |-> TRUE, cncl |-> NetworkConfigList("", <<>>, ""),
          cnirc |-> RuntimeConf("", "")]

ApplyCniInit == Apply("cniInit", CniInit("c1", "eth0", fin[1]))

\* ------------------------------------------------ ext-container
\* the fields of types.NodeConfig that UpdateConfigWithRuntimeInfo writes
RuntimeInfo(id, a4, l4, a6, l6, gw4, gw6) ==
    [ContainerID |-> id, MgmtIPv4Address |-> a4, MgmtIPv4PrefixLength |-> l4,
     MgmtIPv6Address |-> a6, MgmtIPv6PrefixLength |-> l6,
     MgmtIPv4Gateway |-> gw4, MgmtIPv6Gateway |-> gw6]
NoRuntimeInfo == RuntimeInfo("", "", 0, "", 0, "", "")

\* types.GenericContainer, the fields UpdateConfigWithRuntimeInfo reads
ListedContainer(id, a4, l4, a6, l6, gw4, gw6) ==
    [ID |-> id,
     NetworkSettings |-> [IPv4addr |-> a4, IPv4pLen |-> l4, IPv6addr |-> a6,
                          IPv6pLen |-> l6, IPv4Gw |-> gw4, IPv6Gw |-> gw6]]

\* the container lists a lookup can return
ContainerLists ==
    LET a == ListedContainer("ext1", "172.20.20.7", 24, "", 0, "172.20.20.1", "")
        b == ListedContainer("ext2", "10.0.0.2", 16, "2001:db8::2", 64, "10.0.0.1",
                             "2001:db8::1")
    IN {<<>>, <<a>>, <<b>>, <<a, b>>, <<b, a>>}

\* what e.DefaultNode.GetContainers and e.Runtime.ListContainers return
Lookup(err, cnts) == [err |-> err, cnts |-> cnts]
Lookups == {Lookup(TRUE, <<>>)} \cup {Lookup(FALSE, l) : l \in ContainerLists}

\* the node's configuration before the call and the answers of the two
\* lookups
ExtContCalls ==
    {[cfg |-> cfg, default |-> d, fallback |-> f] :
        cfg \in {NoRuntimeInfo,
                 RuntimeInfo("old", "192.168.0.9", 24, "", 0, "192.168.0.1", "")},
        d \in Lookups, f \in Lookups}

\* extcont.GetContainers: the default lookup, and the lookup by short name
\* when the default one found nothing
GetContainers(default, fallback) ==
    IF default.err THEN Lookup(TRUE, <<>>)
    ELSE IF Len(default.cnts) # 0 THEN default
    ELSE IF fallback.err THEN Lookup(TRUE, <<>>)
    ELSE fallback

\* extcont.UpdateConfigWithRuntimeInfo: cnts[0] of an empty list is an index
\* out of range, which ends the process
UpdateConfigWithRuntimeInfo(call) ==
    LET got == GetContainers(call.default, call.fallback)
    IN IF got.err THEN [panic |-> FALSE, err |-> TRUE, cfg |-> call.cfg]
       ELSE IF Len(got.cnts) = 0
       THEN [panic |-> TRUE, err |-> FALSE, cfg |-> call.cfg]
       ELSE LET netSettings == got.cnts[1].NetworkSettings
            IN [panic |-> FALSE, err |-> FALSE,
                cfg |-> RuntimeInfo(got.cnts[1].ID,
                                    netSettings.IPv4addr, netSettings.IPv4pLen,
                                    netSettings.IPv6addr, netSettings.IPv6pLen,
                                    netSettings.IPv4Gw, netSettings.IPv6Gw)]

ApplyUpdateConfigWithRuntimeInfo ==
    Apply("UpdateConfigWithRuntimeInfo", UpdateConfigWithRuntimeInfo(fin[1]))

\* no container operation is made: the engine holds no record
LifeIdle == InitEngine({}) /\ InitDriver({}) /\ ~gracefulShutdown

\* the arguments drawn for a translation
Arguments(name) ==
    CASE name = "convertMounts" -> {<<>>} \cup {<<b>> : b \in BindStrings}
      [] name = "containerdMounts" -> {<<>>} \cup {<<b>> : b \in BindStrings}
      [] name = "createContainerSpec" -> NodeConfigs
      [] name = "extractIPInfoFromLabels" -> LabelMaps
      [] name = "extractMgmtIP" -> InspectResults
      [] name = "filterStringBuilder" -> FilterSeqs
      [] name = "buildFilterString" -> FilterSeqs
      [] name = "cniInit" -> MgmtNets
      [] name = "UpdateConfigWithRuntimeInfo" -> ExtContCalls

Translations == {"convertMounts", "containerdMounts", "createContainerSpec",
                 "extractIPInfoFromLabels", "extractMgmtIP",
                 "filterStringBuilder", "buildFilterString", "cniInit",
                 "UpdateConfigWithRuntimeInfo"}

UtilInit ==
    /\ LifeIdle
    /\ CvxIdle
    /\ Mgmt = ZeroMgmtNet
    /\ ppc = "idle"
    /\ pcalls = 0
    /\ ptrace = <<>>
    /\ fout = <<>>
    /\ \/ scen = "SetMgmtNet" /\ fin = <<>> /\ images = {}
       \/ /\ scen = "PullImageIfRequired"
          /\ images \in SUBSET ImageRefs
          /\ \E n \in ImageNames : fin = <<n>>
       \/ /\ scen \in Translations
          /\ \E a \in Arguments(scen) : fin = <<a>>
          /\ images = {}

UtilNext ==
    \/ SetMgmtNet
    \/ CallPull
    \/ PullList
    \/ PullPull
    \/ ApplyConvertMounts
    \/ ApplyContainerdMounts
    \/ ApplyCreateContainerSpec
    \/ ApplyExtractIPInfoFromLabels
    \/ ApplyExtractMgmtIP
    \/ ApplyFilterStringBuilder
    \/ ApplyBuildFilterString
    \/ ApplyCniInit
    \/ ApplyUpdateConfigWithRuntimeInfo

UtilSpec == UtilInit /\ [][UtilNext]_vars

\* ================================================== the cvx node
MaxPostDeploys == 2    \* PostDeploy calls made on one node

\* the values the VM spawn can send on SpawnFinished
SpawnResults == {"nil", "spawn failed"}

\* what c.Runtime.StartContainer returns: an error, the VM channels of the
\* ignite runtime, or a value of another type
StartResults == {"err", "chans", "other"}

\* var memoryReqs: the memory a known image tag needs
memoryReqs == [t \in {"4.3.0", "4.4.0"} |-> IF t = "4.3.0" THEN "512MB" ELSE "768MB"]

defaultCvxKernelImageRef == "docker.io/networkop/kernel:4.19"
defaultIgniteSandboxImage == "networkop/ignite:dev"

\* the node configurations handed to cvx.Init
CvxImages == {"", "cvx:4.3.0", "cvx:4.4.0", "cvx:latest"}
CvxConfigs ==
    [Kernel : {"", "k:5"}, Sandbox : {"", "sb"}, Image : CvxImages,
     Memory : {"", "1GB"}]

\* ociRef.Ref().Tag(): the part of the image reference after the colon
ImageTag(img) ==
    LET i == CHOOSE k \in 1..Len(img) : Char(img, k) = ":"
    IN  SubSeq(img, i + 1, Len(img))

CvxInit ==
    /\ LifeIdle
    /\ CvxIdle
    /\ Mgmt = ZeroMgmtNet
    /\ images = {}
    /\ scen = "PostDeploy"
    /\ fin \in {<<cfg>> : cfg \in CvxConfigs}
    /\ fout = <<>>
    /\ ppc = "idle"
    /\ pcalls = 0
    /\ ptrace = <<>>

\* cvx.Init: the kernel and sandbox defaults, the image reference, and the
\* memory default taken from the image tag
CvxNodeInit ==
    /\ scen = "PostDeploy"
    /\ cvxpc = "new"
    /\ LET cfg == fin[1]
           k   == [cfg EXCEPT !.Kernel =
                      IF @ = "" THEN defaultCvxKernelImageRef ELSE @]
           sb  == [k EXCEPT !.Sandbox =
                      IF @ = "" THEN defaultIgniteSandboxImage ELSE @]
           mem == IF ImageTag(cfg.Image) \in DOMAIN memoryReqs
                  THEN memoryReqs[ImageTag(cfg.Image)] ELSE "768MB"
       IN  IF cfg.Image = ""
           THEN fin' = <<sb>> /\ cvxpc' = "init_failed"
           ELSE /\ fin' = <<IF sb.Memory = "" THEN [sb EXCEPT !.Memory = mem]
                                              ELSE sb>>
                /\ cvxpc' = "inited"
    /\ UNCHANGED <<lifeVars, Mgmt, images, scen, ppc, pcalls, ptrace, fout,
                   vmChans, spawn, spawnFinished, cvxcalls, cvxctx>>

cvxFrame == <<lifeVars, Mgmt, images, scen, fin, ppc, pcalls, ptrace>>

\* cvx.Deploy: c.Runtime.CreateContainer(ctx, c.Cfg)
DeployCreate ==
    /\ cvxpc = "inited"
    /\ \E ok \in BOOLEAN : cvxpc' = IF ok THEN "deploy_start" ELSE "deploy_failed"
    /\ UNCHANGED <<cvxFrame, fout, vmChans, spawn, spawnFinished, cvxcalls, cvxctx>>

\* cvx.Deploy: c.Runtime.StartContainer(ctx, cID, c.Cfg) and the type
\* assertion that records the VM channels
DeployStart ==
    /\ cvxpc = "deploy_start"
    /\ \E intf \in StartResults :
          /\ cvxpc' = IF intf = "err" THEN "deploy_failed" ELSE "deployed"
          /\ vmChans' = IF intf = "chans" THEN "chans" ELSE vmChans
          /\ spawn' = IF intf = "chans" THEN "running" ELSE spawn
    /\ UNCHANGED <<cvxFrame, fout, spawnFinished, cvxcalls, cvxctx>>

\* the VM spawn ends and sends its result on SpawnFinished
SpawnFinish ==
    /\ spawn = "running"
    /\ \E v \in SpawnResults : spawnFinished' = Append(spawnFinished, v)
    /\ spawn' = "finished"
    /\ UNCHANGED <<cvxFrame, fout, vmChans, cvxpc, cvxcalls, cvxctx>>

\* a caller invokes PostDeploy(ctx, nodes) on the deployed node, with a
\* context that may already be done
CallPostDeploy ==
    /\ cvxpc \in {"deployed", "post_done"}
    /\ cvxcalls < MaxPostDeploys
    /\ cvxcalls' = cvxcalls + 1
    /\ cvxpc' = "post_check"
    /\ cvxctx' \in BOOLEAN
    /\ fout' = <<>>
    /\ UNCHANGED <<cvxFrame, vmChans, spawn, spawnFinished>>

\* the caller cancels the context of the running PostDeploy
CancelPostDeploy ==
    /\ cvxpc \in {"post_check", "post_recv"}
    /\ ~cvxctx
    /\ cvxctx' = TRUE
    /\ UNCHANGED <<cvxFrame, fout, vmChans, spawn, spawnFinished, cvxpc, cvxcalls>>

\* if c.vmChans == nil { return nil }
PostDeployCheck ==
    /\ cvxpc = "post_check"
    /\ IF vmChans = "nil"
       THEN cvxpc' = "post_done" /\ fout' = <<"nil">>
       ELSE cvxpc' = "post_recv" /\ UNCHANGED fout
    /\ UNCHANGED <<cvxFrame, vmChans, spawn, spawnFinished, cvxcalls, cvxctx>>

\* return <-c.vmChans.SpawnFinished: the receive is the only case the
\* goroutine waits for, the context parameter is not named
PostDeployRecv ==
    /\ cvxpc = "post_recv"
    /\ spawnFinished # <<>>
    /\ fout' = <<Head(spawnFinished)>>
    /\ spawnFinished' = Tail(spawnFinished)
    /\ cvxpc' = "post_done"
    /\ UNCHANGED <<cvxFrame, vmChans, spawn, cvxcalls, cvxctx>>

PostDeployStep == PostDeployCheck \/ PostDeployRecv

CvxNext ==
    \/ CvxNodeInit
    \/ DeployCreate
    \/ DeployStart
    \/ SpawnFinish
    \/ CallPostDeploy
    \/ CancelPostDeploy
    \/ PostDeployCheck
    \/ PostDeployRecv

\* the goroutine in PostDeploy keeps running; nothing is assumed of the VM
\* spawn or of the caller
CvxSpec == CvxInit /\ [][CvxNext]_vars /\ WF_vars(PostDeployStep)

\* ================================================== properties
StopOps == {"stop", "delete"}
ObservedPaused(c) == taskstatus[c] \in PausedStates

C2_CreatedStoppedSkipStop ==
    \A c \in Containers :
        taskstatus[c] \in {"Created", "Stopped"} =>
            /\ ~Called(trace[c], "Wait")
            /\ ~Called(trace[c], "Resume")
            /\ ~Called(trace[c], "Kill")
            /\ ~Called(trace[c], "park")
            /\ selected[c] = "none"
            /\ ~waitReg[c]
            /\ (pc[c] \in StopPCs => pc[c] = "stop_delete")
            /\ (stopRes[c] # "none" => Called(trace[c], "TaskDelete"))

\* C2 witness: a StopContainer call on a Created task returned after
\* deleting the task
C2_Witness ==
    \E c \in Containers :
        /\ op[c] = "stop" /\ pc[c] = "done"
        /\ taskstatus[c] = "Created"
        /\ result[c] = "nil"
        /\ \E d \in Idx(trace[c], "TaskDelete") : trace[c][d].ok

\* C3: StopContainer on a container that has no task returns success and
\* makes no status query, no exit-wait registration, no resume, no kill and
\* no task delete.
C3_NoTaskIsSuccess ==
    \A c \in Containers :
        (op[c] \in StopOps /\ start[c] = "none") =>
            /\ \A n \in {"Status", "Wait", "Resume", "Kill", "TaskDelete"} :
                  ~Called(trace[c], n)
            /\ stopRes[c] \in {"none", "nil"}
            /\ (pc[c] \notin StopPCs => stopRes[c] = "nil")
            /\ (op[c] = "stop" /\ pc[c] = "done") => result[c] = "nil"

\* C3 witness: StopContainer returned for an existing container without task
C3_Witness ==
    \E c \in Containers :
        /\ op[c] = "stop" /\ pc[c] = "done"
        /\ rec[c] /\ start[c] = "none"
        /\ Called(trace[c], "Task")
        /\ result[c] = "nil"


Parked(c) == pc[c] = "stop_parked"
AtWait(c) == pc[c] \in {"stop_select", "stop_parked", "stop_woken"}
InStop(c) == pc[c] \in StopPCs

\* C4: a cancellation of the caller's context while StopContainer is blocked
\* waiting for the exit notification unblocks the call, which returns the
\* cancellation error and does not delete the task; and if every blocked
\* wait gets its exit notification or its cancellation, every StopContainer
\* call that reached the wait returns.
C4_CancelUnblocksWait ==
    /\ [][\A c \in Containers :
             (Parked(c) /\ ~cancelled[c] /\ cancelled'[c]) =>
                 (pc'[c] = "stop_woken" /\ selected'[c] = "ctx")]_vars
    /\ [](\A c \in Containers :
             selected[c] = "ctx" =>
                 /\ stopRes[c] \in {"none", "ctxErr"}
                 /\ ~Called(trace[c], "TaskDelete")
                 /\ (~InStop(c) => (stopRes[c] = "ctxErr" /\ result[c] = "ctxErr")))
    /\ \A c \in Containers :
          [](Parked(c) => <>~Parked(c)) => [](AtWait(c) => <>~InStop(c))

\* C4 witness: a StopContainer call that had blocked in the wait returned
\* the cancellation error, the task still being there
C4_Witness ==
    \E c \in Containers :
        /\ op[c] = "stop" /\ pc[c] = "done"
        /\ Called(trace[c], "park")
        /\ selected[c] = "ctx"
        /\ result[c] = "ctxErr"
        /\ task[c] # "none"

\* C5: whenever StopContainer calls Kill it has registered for the exit
\* notification before in the same call, the signal is SIGKILL whatever the
\* driver's gracefulShutdown and the dur argument are, and Kill is called at
\* most once per call.
C5_WaitThenOneSigkill ==
    \A c \in Containers :
        /\ Cardinality(Idx(trace[c], "Kill")) <= 1
        /\ \A k \in Idx(trace[c], "Kill") :
              /\ \E w \in Idx(trace[c], "Wait") : w < k /\ trace[c][w].ok
              /\ trace[c][k].arg = <<"SIGKILL">>
        /\ sigs[c] \subseteq {"SIGKILL"}

\* C5 witness: a graceful driver called with a dur argument delivered a kill
C5_Witness ==
    \E c \in Containers :
        /\ gracefulShutdown /\ durArg[c] = "set"
        /\ \E k \in Idx(trace[c], "Kill") : trace[c][k].ok
        /\ sigs[c] = {"SIGKILL"}

\* C6: for a task observed neither Created nor Stopped, StopContainer deletes
\* the task only after the exit notification was received without error; and
\* whenever StopContainer returns success for a container that had a task,
\* the task has been deleted.
C6_DeleteAfterExit ==
    \A c \in Containers :
        /\ (taskstatus[c] \notin {"none", "Created", "Stopped"}) =>
              \A d \in Idx(trace[c], "TaskDelete") :
                  selected[c] = "exit" /\ exitCh[c] = "ok"
        /\ (op[c] \in StopOps /\ stopRes[c] = "nil" /\ start[c] # "none")
              => task[c] = "none"

\* C7: two StopContainer calls in a row on a container whose task is already
\* stopped, the engine answering every call, both return success and neither
\* delivers a kill.
C7_StopTwiceIdempotent ==
    \A c \in Containers :
        ( /\ prev[c].op = "stop" /\ prev[c].start = "Stopped" /\ ~prev[c].faulted
          /\ op[c] = "stop" /\ pc[c] = "done" /\ ~faulted[c] ) =>
            /\ prev[c].result = "nil"
            /\ prev[c].kills = 0
            /\ result[c] = "nil"
            /\ ~Called(trace[c], "Kill")
            /\ task[c] = "none"

\* C7 witness: the second of two StopContainer calls on a stopped task has
\* returned
C7_Witness ==
    \E c \in Containers :
        /\ prev[c].op = "stop" /\ prev[c].start = "Stopped" /\ ~prev[c].faulted
        /\ op[c] = "stop" /\ pc[c] = "done" /\ ~faulted[c]
        /\ start[c] = "none"
        /\ result[c] = "nil"

\* the steps of DeleteContainer that follow StopContainer
DeletePhase(tr) ==
    {i \in 1..Len(tr) : \E d \in Idx(tr, "cniInit") : d <= i}

\* C8: in DeleteContainer the network detach is invoked only after
\* StopContainer returned success, the removal of the container only after
\* the detach returned success; when a step fails no later step is made and
\* the error is returned.
C8_DeleteOrder ==
    \A c \in Containers :
        op[c] = "delete" =>
            /\ (Called(trace[c], "cniInit") \/ Called(trace[c], "DelNetworkList")
                    \/ Called(trace[c], "ContainerDelete")) => stopRes[c] = "nil"
            /\ \A r \in Idx(trace[c], "ContainerDelete") :
                  \E d \in Idx(trace[c], "DelNetworkList") : d < r /\ trace[c][d].ok
            /\ (stopRes[c] \notin {"none", "nil"}) =>
                  (pc[c] = "done" /\ result[c] = stopRes[c])
            /\ \A i \in DeletePhase(trace[c]) :
                  ~trace[c][i].ok =>
                      (i = Len(trace[c]) /\ pc[c] = "done" /\ result[c] # "nil")
            /\ (pc[c] = "done" /\ result[c] = "nil") =>
                  \E r \in Idx(trace[c], "ContainerDelete") : trace[c][r].ok

\* C8 witness: a DeleteContainer call stopped the task, detached the network
\* and removed the container
C8_Witness ==
    \E c \in Containers :
        /\ op[c] = "delete" /\ pc[c] = "done" /\ result[c] = "nil"
        /\ \E t \in Idx(trace[c], "Kill"), d \in Idx(trace[c], "DelNetworkList"),
              r \in Idx(trace[c], "ContainerDelete") : t < d /\ d < r
        /\ ~rec[c]

\* the calls of a CreateContainer that uses the plugin chain, in order
CreateOrder ==
    <<"GetImage", "BuildSpec", "cniInit", "NewContainer", "LoadContainer",
      "NewTask", "Start", "LoadContainer", "GetNSPath", "LinkContainerNS",
      "AddNetworkList", "SetLabels">>

\* C9: a CreateContainer with a network mode other than host and none makes
\* its steps in the order: record created, task started, namespace path
\* resolved and written to the NodeSpec, plugin-chain add with that path,
\* labels set; no step follows a failed one, and success is returned only
\* after all of them succeeded.
C9_CreateOrder ==
    \A c \in Containers :
        (op[c] = "create" /\ nodeMode[c] \notin {"host", "none"}) =>
            LET tr == trace[c] IN
            /\ Len(tr) <= Len(CreateOrder)
            /\ \A i \in 1..Len(tr) :
                  /\ tr[i].call = CreateOrder[i]
                  /\ (i < Len(tr) => tr[i].ok)
            /\ \A a \in Idx(tr, "AddNetworkList") :
                  /\ tr[a].arg # NoPath
                  /\ tr[a].arg = nsPath[c]
                  /\ tr[a].arg = netNS[c]
                  /\ \E g \in Idx(tr, "GetNSPath") : tr[g].arg = tr[a].arg
            /\ (pc[c] = "done" /\ result[c] = "nil") =>
                  (Len(tr) = Len(CreateOrder) /\ \A i \in 1..Len(tr) : tr[i].ok)
            /\ (pc[c] = "done" /\ result[c] # "nil") =>
                  (tr # <<>> /\ ~tr[Len(tr)].ok)

\* C9 witness: a CreateContainer in bridge mode returned success
C9_Witness ==
    \E c \in Containers :
        /\ op[c] = "create" /\ nodeMode[c] = "bridge"
        /\ pc[c] = "done" /\ result[c] = "nil"
        /\ Called(trace[c], "SetLabels")
        /\ netNS[c] = NSPathOf(pid[c])

\* C10: the network mode alone decides whether the plugin chain runs: for a
\* container created with mode host or none the driver never invokes the
\* plugin chain (no add, no del); for any other mode a successful
\* CreateContainer invokes add exactly once.
C10_ModeGovernsPluginChain ==
    \A c \in Containers :
        /\ (rec[c] /\ cmode[c] \in {"host", "none"}) => (adds[c] = 0 /\ dels[c] = 0)
        /\ (op[c] = "create" /\ pc[c] = "done" /\ result[c] = "nil"
                /\ nodeMode[c] \notin {"host", "none"})
              => Cardinality(Idx(trace[c], "AddNetworkList")) = 1

\* calls with which a CreateContainer would undo what it created
CleanupCalls == {"Kill", "TaskDelete", "ContainerDelete"}

\* C11: when CreateContainer returns an error after the container record was
\* created in the engine, the driver has attempted a cleanup of that
\* container (its task and/or its record) before returning.
C11_FailedCreateCleansUp ==
    \A c \in Containers :
        (op[c] = "create" /\ pc[c] = "done" /\ result[c] # "nil") =>
            \A n \in Idx(trace[c], "NewContainer") :
                trace[c][n].ok =>
                    \E k \in n+1..Len(trace[c]) : trace[c][k].call \in CleanupCalls

\* the engine calls of StopContainer whose error the caller is to get
StopErrCalls == {"LoadContainer", "Task", "Status", "Wait", "Kill", "TaskDelete"}

\* the i-th call of the StopContainer running for c failed because the
\* container has no task (or does not exist), not through an engine fault
NoTaskCondition(c, i) ==
    \/ trace[c][i].call = "LoadContainer" /\ ~rec[c]
    \/ trace[c][i].call = "Task" /\ start[c] = "none"

\* C17: every engine or transport error met by StopContainer (loading the
\* container, fetching the task, querying the status, registering the wait,
\* kill, task delete) is returned to the caller; only the absence of a task
\* is turned into success, so StopContainer never returns success for a
\* container whose task is still there.
C17_StopErrorsReturned ==
    \A c \in Containers :
        (op[c] = "stop" /\ pc[c] = "done") =>
            /\ (\E i \in 1..Len(trace[c]) :
                    /\ trace[c][i].call \in StopErrCalls
                    /\ ~trace[c][i].ok
                    /\ ~NoTaskCondition(c, i)) => result[c] # "nil"
            /\ (result[c] = "nil") => (task[c] = "none")

\* the entry a ListContainers call that returned made for c
Listed(c) == op[c] = "list" /\ pc[c] = "done" /\ result[c] = "nil" /\ listed[c].present

\* C19: the IPv4/IPv6 address and prefix length of the attach result, which
\* CreateContainer records as the clab.ipv4.addr, clab.ipv4.netmask,
\* clab.ipv6.addr and clab.ipv6.netmask labels, are the values a later
\* ListContainers reports in the container's GenericMgmtIPs, with Set = true;
\* a container created with host or none networking is reported with
\* Set = false.
C19_LabelsRoundTrip ==
    \A c \in Containers :
        ( /\ prev[c].op = "create" /\ prev[c].result = "nil"
          /\ op[c] = "list" /\ pc[c] = "done" /\ result[c] = "nil" ) =>
            /\ listed[c].present
            /\ IF nodeMode[c] \in {"host", "none"}
               THEN ~listed[c].NetworkSettings.Set
               ELSE LET n == listed[c].NetworkSettings
                    IN /\ n.Set
                       /\ n.IPv4addr = LastOf(attach[c], "4").IP
                       /\ n.IPv4pLen = LastOf(attach[c], "4").Size
                       /\ n.IPv6addr = LastOf(attach[c], "6").IP
                       /\ n.IPv6pLen = LastOf(attach[c], "6").Size
                       /\ \A k \in DOMAIN AttachLabels(attach[c]) :
                             listed[c].Labels[k] = AttachLabels(attach[c])[k]

\* C19 witness: a container created with an IPv4 and an IPv6 address was
\* listed with both
C19_Witness ==
    \E c \in Containers :
        /\ prev[c].op = "create" /\ prev[c].result = "nil"
        /\ Listed(c)
        /\ Len(attach[c]) = 2
        /\ listed[c].NetworkSettings.IPv4pLen = 24
        /\ listed[c].NetworkSettings.IPv6pLen = 64

\* C20: in every entry ListContainers returns, Pid is -1 exactly when the
\* container has no task, and the State of such an entry is "unknown", in
\* the lower-case vocabulary of the entries with a task.
C20_NoTaskPidAndState ==
    \A c \in Containers :
        Listed(c) =>
            /\ (listed[c].Pid = -1) <=> (task[c] = "none")
            /\ (listed[c].Pid = -1) => (listed[c].State = "unknown")

\* the engine calls of the n-th PullImageIfRequired call
PullCalls(n, name) == {i \in 1..Len(ptrace) : ptrace[i].n = n /\ ptrace[i].call = name}

\* C12: PullImageIfRequired issues a pull if and only if the requested
\* image, looked up by its canonical reference, is absent from the image
\* store: whatever the store holds, a present reference is not pulled and an
\* absent one is.
C12_PullIffAbsent ==
    scen = "PullImageIfRequired" =>
        \A n \in 1..pcalls :
            (n < pcalls \/ ppc = "done") =>
                \A l \in PullCalls(n, "ListImages") :
                    ptrace[l].ok =>
                        ((PullCalls(n, "Pull") # {})
                            <=> (GetCanonicalImageName(fin[1]) \notin ptrace[l].arg))

\* C13: whatever the image reference and the image store, two
\* PullImageIfRequired calls made one after the other for the same
\* reference, the engine answering every call, issue at most one pull.
C13_TwoCallsOnePull ==
    scen = "PullImageIfRequired" =>
        ((\A i \in 1..Len(ptrace) : ptrace[i].ok) =>
            Cardinality({i \in 1..Len(ptrace) : ptrace[i].call = "Pull"}) <= 1)

\* C13 witness: on an empty store the first call pulled the image and the
\* second call returned without a pull
C13_Witness ==
    /\ scen = "PullImageIfRequired"
    /\ pcalls = 2 /\ ppc = "done"
    /\ fout = <<"nil", "nil">>
    /\ PullCalls(1, "Pull") # {}
    /\ PullCalls(2, "ListImages") # {} /\ PullCalls(2, "Pull") = {}
    /\ GetCanonicalImageName(fin[1]) \in images

\* C14: after SetMgmtNet(n) the recorded bridge name is "br-" followed by
\* n.Network when n.Bridge is empty and n.Bridge otherwise, every other field
\* of the recorded descriptor is that of n, and a SetMgmtNet with the
\* recorded descriptor leaves it as it is.
C14_SetMgmtNetBridge ==
    /\ [](scen = "SetMgmtNet" /\ fin # <<>> =>
            LET n == fin[1]
            IN /\ (n.Bridge = "") => (Mgmt.Bridge = "br-" \o n.Network)
               /\ (n.Bridge # "") => (Mgmt.Bridge = n.Bridge)
               /\ Mgmt = [n EXCEPT !.Bridge = Mgmt.Bridge])
    /\ [][(scen = "SetMgmtNet" /\ fout # <<>> /\ fin' = <<Mgmt>>) => (Mgmt' = Mgmt)]_vars

\* C15: in the bind-mount translation of each driver (podman convertMounts,
\* containerd CreateContainer) a bind string src:dst or src:dst:opt1,opt2
\* gives exactly one mount with Source src and Destination dst, which
\* carries the parsed options exactly when there is a third segment; a bind
\* string without ':' is refused with the "invalid bind" error and gives no
\* mount.
C15_BindTranslation ==
    (scen \in {"convertMounts", "containerdMounts"} /\ fout # <<>> /\ Len(fin[1]) = 1) =>
        LET b == fin[1][1]
            out == fout[1]
            seg == SplitN(b, ":", 3)
        IN IF ~HasChar(b, ":")
           THEN /\ Len(out.err) >= Len(ErrInvalidBind)
                /\ SubSeq(out.err, 1, Len(ErrInvalidBind)) = ErrInvalidBind
                /\ out.mounts = <<>>
           ELSE /\ out.err = "nil"
                /\ Len(out.mounts) = 1
                /\ out.mounts[1].Source = seg[1]
                /\ out.mounts[1].Destination = seg[2]
                /\ LET opts == out.mounts[1].Options
                   IN IF Len(seg) = 3
                      THEN LET parsed == Split(seg[3], ",")
                           IN /\ Len(opts) >= Len(parsed)
                              /\ SubSeq(opts, Len(opts) - Len(parsed) + 1, Len(opts)) = parsed
                      ELSE opts \in {<<>>, <<"rbind", "rprivate">>}

\* network modes the drivers know: bridge (the default), host, none and
\* container:<name>
KnownMode(mode) ==
    SplitN(mode, ":", 2)[1] \in {"", "bridge", "host", "none", "container"}

\* C16: podman's createContainerSpec returns an error, and no usable spec,
\* for a malformed bind mount, for a MAC address that does not parse, for a
\* memory string that does not parse and for an unsupported network mode.
C16_ConfigErrorsFatal ==
    (scen = "createContainerSpec" /\ fout # <<>>) =>
        LET cfg == fin[1]
            out == fout[1]
        IN ( \/ \E i \in 1..Len(cfg.Binds) : ~HasChar(cfg.Binds[i], ":")
             \/ cfg.MacAddress # "" /\ ~ParseMAC(cfg.MacAddress).ok
             \/ cfg.Memory # "" /\ ~ParseBytes(cfg.Memory).ok
             \/ ~KnownMode(cfg.NetworkMode) )
           => (out.err # "nil" /\ out.sg = ZeroSpec)

\* a GenericMgmtIPs that is not set holds no address and no prefix length
UnsetIsEmpty(ips) ==
    ~ips.Set => /\ ips.IPv4addr = "" /\ ips.IPv6addr = ""
                /\ ips.IPv4pLen = 0 /\ ips.IPv6pLen = 0

\* C18: every GenericMgmtIPs a driver produces (containerd
\* extractIPInfoFromLabels for any label map, podman extractMgmtIP for any
\* inspect result) with Set = false has empty IPv4 and IPv6 addresses and
\* prefix lengths of zero.
C18_UnsetMeansEmpty ==
    /\ (scen = "extractIPInfoFromLabels" /\ fout # <<>> /\ ~fout[1].err)
          => UnsetIsEmpty(fout[1].ips)
    /\ (scen = "extractMgmtIP" /\ fout # <<>> /\ ~fout[1].panic)
          => UnsetIsEmpty(fout[1].ips)


\* the capitalized names of the task states
CapitalizedState(st) ==
    CASE st = "Created" -> "Created"
      [] st = "Paused" -> "Paused"
      [] st = "Pausing" -> "Pausing"
      [] st = "Unknown" -> "Unknown"
      [] st = "Running" -> "Running"
      [] st = "Stopped" -> "Stopped"

\* C21: the step of ListContainers that converts a container with a task
\* reports, for every task state, the Status "Exited (<exit code>) <time
\* since exit> ago" when the task is Stopped, "Up" when it is Running and the
\* capitalized state name otherwise, and the entry's labels are the labels
\* the engine holds for the container.
C21_StatusByTaskState ==
    [][\A c \in Containers :
          ( /\ pc[c] = "ls_status" /\ pc'[c] = "done" /\ result'[c] = "nil" ) =>
             /\ listed'[c].present
             /\ listed'[c].Labels = labels[c]
             /\ CASE task[c] = "Stopped" ->
                       \E code \in ExitCodes, d \in HumanDurations :
                          listed'[c].Status =
                             "Exited (" \o Itoa(code) \o ") " \o d \o " ago"
                  [] task[c] = "Running" -> listed'[c].Status = "Up"
                  [] OTHER -> listed'[c].Status = CapitalizedState(task[c])]_vars

\* C21 witness: a stopped task with exit code 137 was listed as
\* "Exited (137) 5 minutes ago"
C21_Witness ==
    \E c \in Containers :
        /\ Listed(c)
        /\ listed[c].State = "stopped"
        /\ listed[c].Status = "Exited (137) 5 minutes ago"
        /\ listed[c].Labels = labels[c]

\* s holds sub
Contains(s, sub) == IndexOf(s, sub) > 0

\* the filter sequence with the match value of filter i replaced
WithMatch(fs, i, m) == [fs EXCEPT ![i].Match = m]

\* C22: a filter with operator exists is translated into a term that tests
\* the presence of the field only.  The translated query does not depend on
\* the filter's match value, and for a label filter the term names the field:
\* "labels.<field>" in containerd's query string, "<field>=" among podman's
\* label filters.
C22_ExistsTestsPresenceOnly ==
    /\ (scen = "filterStringBuilder" /\ fout # <<>>) =>
          \A i \in DOMAIN fin[1] :
             fin[1][i].Operator = "exists" =>
                /\ \A m \in FilterMatches :
                      FilterStringBuilder(WithMatch(fin[1], i, m)) = fout[1]
                /\ fin[1][i].FilterType = "label" =>
                      Contains(fout[1], "labels." \o fin[1][i].Field)
    /\ (scen = "buildFilterString" /\ fout # <<>>) =>
          \A i \in DOMAIN fin[1] :
             fin[1][i].Operator = "exists" =>
                /\ \A m \in FilterMatches :
                      BuildFilterString(WithMatch(fin[1], i, m)) = fout[1]
                /\ fin[1][i].FilterType = "label" =>
                      /\ "label" \in DOMAIN fout[1]
                      /\ \E j \in DOMAIN fout[1]["label"] :
                            fout[1]["label"][j] = fin[1][i].Field \o "="

\* C22 witness: the label filter "x exists" with match value "1" was
\* translated by containerd into "labels.x"
C22_Witness ==
    /\ scen = "filterStringBuilder"
    /\ fin = << <<GenericFilter("label", "x", "exists", "1")>> >>
    /\ fout = <<"labels.x">>

\* the filters a driver's translation has a case for
SupportedByContainerd(f) == f.FilterType = "label"
SupportedByPodman(f) == f.FilterType = "name" \/ f.Operator \in {"=", "exists"}

\* the term of a label filter in containerd's query dialect
LabelTerm(f) ==
    "labels." \o f.Field \o
       (CASE f.Operator = "exists" -> ""
          [] f.Operator = "=" -> "==" \o f.Match
          [] OTHER -> f.Operator \o f.Match)

\* the term of a filter in podman's query dialect
PodmanTerm(f) ==
    IF f.FilterType = "name" THEN (IF f.Operator = "exists" THEN "" ELSE f.Match)
    ELSE f.Field \o "=" \o (IF f.Operator = "exists" THEN "" ELSE f.Match)

\* C23: a filter whose (type, operator) combination the driver has no case
\* for contributes nothing to the translated query, which is the query of
\* the sequence without these filters, and the term of every other filter
\* of the sequence is in the query.
C23_UnsupportedSkipped ==
    /\ (scen = "filterStringBuilder" /\ fout # <<>>) =>
          /\ fout[1] = FilterStringBuilder(SelectSeq(fin[1], SupportedByContainerd))
          /\ \A i \in DOMAIN fin[1] :
                SupportedByContainerd(fin[1][i]) =>
                   Contains(fout[1], LabelTerm(fin[1][i]))
    /\ (scen = "buildFilterString" /\ fout # <<>>) =>
          /\ fout[1] = BuildFilterString(SelectSeq(fin[1], SupportedByPodman))
          /\ \A i \in DOMAIN fin[1] :
                SupportedByPodman(fin[1][i]) =>
                   /\ fin[1][i].FilterType \in DOMAIN fout[1]
                   /\ \E j \in DOMAIN fout[1][fin[1][i].FilterType] :
                         fout[1][fin[1][i].FilterType][j] = PodmanTerm(fin[1][i])

\* the terms joined by ","
RECURSIVE JoinTerms(_)
JoinTerms(ts) ==
    IF ts = <<>> THEN ""
    ELSE IF Len(ts) = 1 THEN ts[1]
    ELSE ts[1] \o "," \o JoinTerms(Tail(ts))

\* C28: for a sequence of label filters the query string of
\* filterStringBuilder is the terms of the filters, one per filter and in
\* order, with a "," between every two consecutive terms and none at the end.
C28_TermsJoinedByComma ==
    ( /\ scen = "filterStringBuilder" /\ fout # <<>>
      /\ \A i \in DOMAIN fin[1] : fin[1][i].FilterType = "label" ) =>
         fout[1] = JoinTerms([i \in DOMAIN fin[1] |-> LabelTerm(fin[1][i])])

\* C25: the detach DeleteContainer issues for a container that the preceding
\* CreateContainer attached carries the network-namespace path that was
\* passed to add (node.NSPath, which the create wrote into the cnirc); the
\* container ID and the interface name "eth0" are those of the attach.
C25_DetachSameContext ==
    \A c \in Containers :
        ( /\ op[c] = "delete"
          /\ prev[c].op = "create" /\ prev[c].result = "nil"
          /\ UsesCNI(nodeMode[c]) ) =>
            \A d \in Idx(trace[c], "DelNetworkList") :
                trace[c][d].arg = nsPath[c]

\* the management subnets that are configured
ConfiguredSubnets(n) == {s \in {n.IPv4Subnet, n.IPv6Subnet} : s # ""}

\* C24: the plugin chain cniInit builds has one IPAM range for each
\* configured management subnet and no other range; with an IPv4 subnet and
\* no IPv6 subnet it has exactly one range, the IPv4 subnet.  Stated for the
\* descriptors that have an IPv4 subnet.
C24_RangePerConfiguredSubnet ==
    (scen = "cniInit" /\ fout # <<>> /\ ~fout[1].err /\ fin[1].IPv4Subnet # "") =>
        LET ranges == fout[1].cncl.Ranges
        IN /\ {ranges[i] : i \in DOMAIN ranges} = ConfiguredSubnets(fin[1])
           /\ Len(ranges) = Cardinality(ConfiguredSubnets(fin[1]))

\* C26: podman's createContainerSpec leaves the labels map of the caller's
\* NodeConfig as it was given.
C26_NodeSpecLabelsUnchanged ==
    (scen = "createContainerSpec" /\ fout # <<>>) =>
        fout[1].cfgLabels = fin[1].Labels

\* the configurations whose command line and MAC address are well formed
WellFormed(cfg) ==
    /\ cfg.Cmd = "sh -c"
    /\ cfg.MacAddress \in {"", "00:1c:73:00:00:01"}

\* the namespace configuration of a spec CreateContainerSpec returned
Selects(out, nsmode, nsvalue, nets) ==
    /\ out.err = "nil"
    /\ out.sg.NSMode = nsmode
    /\ out.sg.NSValue = nsvalue
    /\ out.sg.Networks = nets

\* the one attachment to the management network with the static MAC and IPs
MgmtAttachment(cfg) ==
    <<[Name |-> "clab",
       StaticIPs |-> IF cfg.MgmtIPv4Address = "" THEN <<>>
                     ELSE <<cfg.MgmtIPv4Address>>,
       StaticMAC |-> IF cfg.MacAddress = "" THEN <<>>
                     ELSE <<"00", "1c", "73", "00", "00", "01">>]>>

\* C29: for a well-formed configuration whose network mode is bridge or
\* empty, host, none or container:<name>, createContainerSpec succeeds and
\* selects the namespace configuration of the mode: bridge with one
\* attachment to the management network carrying the static MAC and IPs,
\* host, no networking, or the namespace of the container lab-prefix+<name>;
\* for container mode with a missing or empty name it returns an error and
\* no spec.
C29_ModeSelectsNamespace ==
    (scen = "createContainerSpec" /\ fout # <<>> /\ WellFormed(fin[1])) =>
        LET cfg == fin[1]
            out == fout[1]
        IN CASE cfg.NetworkMode \in {"bridge", ""} ->
                    Selects(out, "bridge", "", MgmtAttachment(cfg))
             [] cfg.NetworkMode = "host" -> Selects(out, "host", "", <<>>)
             [] cfg.NetworkMode = "none" -> Selects(out, "none", "", <<>>)
             [] cfg.NetworkMode = "container:n1" ->
                    Selects(out, "container", "clab-lab-n1", <<>>)
             [] cfg.NetworkMode \in {"container", "container:"} ->
                    out.err # "nil" /\ out.sg = ZeroSpec
             [] OTHER -> TRUE

\* the containers a call of UpdateConfigWithRuntimeInfo finds
Found(call) ==
    IF Len(call.default.cnts) # 0 THEN call.default.cnts ELSE call.fallback.cnts

\* C30: when the default lookup and the short-name fallback both return an
\* empty list and no error, UpdateConfigWithRuntimeInfo returns normally and
\* leaves the management addresses and the container ID of the node as they
\* were; when a container is found, the configuration takes the addresses
\* and the ID of the first container found.
C30_EmptyListingHandled ==
    ( /\ scen = "UpdateConfigWithRuntimeInfo" /\ fout # <<>>
      /\ ~fin[1].default.err
      /\ (Len(fin[1].default.cnts) = 0 => ~fin[1].fallback.err) ) =>
        LET first == Found(fin[1])
            out == fout[1]
        IN /\ ~out.panic
           /\ ~out.err
           /\ IF Len(first) = 0 THEN out.cfg = fin[1].cfg
              ELSE /\ out.cfg.ContainerID = first[1].ID
                   /\ out.cfg.MgmtIPv4Address = first[1].NetworkSettings.IPv4addr
                   /\ out.cfg.MgmtIPv4PrefixLength = first[1].NetworkSettings.IPv4pLen
                   /\ out.cfg.MgmtIPv6Address = first[1].NetworkSettings.IPv6addr
                   /\ out.cfg.MgmtIPv6PrefixLength = first[1].NetworkSettings.IPv6pLen

\* all that the engine and the driver hold for container c
Local(c) ==
    <<rec[c], cmode[c], task[c], pid[c], sigs[c], waitReg[c], exitCh[c], adds[c],
      dels[c], labels[c], op[c], pc[c], calls[c], cancelled[c], durArg[c],
      trace[c], result[c], stopRes[c], start[c], faulted[c], taskstatus[c],
      paused[c], needsStop[c], selected[c], nodeMode[c], nsPath[c], cnic[c],
      netNS[c], prev[c], attach[c], listed[c]>>

\* the signals the Kill calls of c's operation delivered
OwnSignals(c) ==
    UNION {{trace[c][i].arg[1]} : i \in {j \in Idx(trace[c], "Kill") : trace[c][j].ok}}

\* C27: with a StopContainer running for each of two containers on one
\* driver instance, in every interleaving a step of one operation (and of
\* its task and its caller) changes nothing of what the engine and the
\* driver hold for the other container, and nothing that both share, so
\* that each operation runs as it does alone; a task has received no signal
\* but those of its own operation's Kill calls; and every operation that was
\* started completes unless it is blocked in the exit-wait on its own task,
\* whatever the other operation does, also when that one stays blocked in
\* its wait for ever.
C27_ConcurrentStopsIsolated ==
    /\ [][ /\ \A c, d \in Containers :
                (c # d) => (Local(c)' = Local(c) \/ Local(d)' = Local(d))
           /\ alive' = alive
           /\ gracefulShutdown' = gracefulShutdown ]_vars
    /\ [](\A c \in Containers : sigs[c] \subseteq OwnSignals(c))
    /\ \A c \in Containers :
          (pc[c] \notin {"idle", "done"}) ~> (pc[c] = "done" \/ Parked(c))

\* C27 witness: the stop of c1 is blocked in its exit-wait while the stop of
\* c2, which resumed and killed its own paused task, has completed
C27_Witness ==
    /\ Parked("c1")
    /\ op["c2"] = "stop" /\ pc["c2"] = "done" /\ result["c2"] = "nil"
    /\ start["c2"] = "Paused"
    /\ Called(trace["c2"], "Resume")
    /\ Kills(trace["c2"]) = 1
    /\ task["c2"] = "none"
    /\ sigs["c1"] = {"SIGKILL"}

\* C31: PostDeploy returns nil at once when Deploy recorded no VM channels,
\* and otherwise returns the value received from the spawn-finished
\* channel; and a PostDeploy that waits on that channel returns once the
\* caller's context is cancelled, whether or not a spawn result arrives.
C31_PostDeployHonorsCtx ==
    /\ [][ /\ (cvxpc = "post_check" /\ cvxpc' # cvxpc /\ vmChans = "nil") =>
                (cvxpc' = "post_done" /\ fout' = <<"nil">>)
           /\ (cvxpc = "post_recv" /\ cvxpc' = "post_done") =>
                (spawnFinished # <<>> /\ fout' = <<spawnFinished[1]>>) ]_vars
    /\ (cvxpc = "post_recv" /\ cvxctx) ~> (cvxpc = "post_done")
====
